---- MODULE Spec2Model ----
\* Model of the traffic-signal environment of Traffic_logic_RL_based.py:
\* TrafficEnvironment (reset / apply_action / step) driven by the Trainer
\* episode loop against a stepped simulator, and the action codecs of the
\* DQN, PPO and A3C agents.
EXTENDS Integers, Sequences, FiniteSets, TLC

\* ---------------------------------------------------------------------
\* Configuration (config.yaml values, scaled down) and model bounds
\* ---------------------------------------------------------------------
MIN_PHASE_DURATION == 2
MAX_PHASE_DURATION == 3
YELLOW_PHASE_DURATION == 3
EPISODE_DURATION == 5
NUM_PHASES == 4
NUM_SUMO_PHASES == 8
CHURN_THRESHOLD == 3

\* the intersections a network can have; config.INTERSECTIONS is a list of them
\* (the episode specifications below run a one-intersection network)
Nodes == {"n00", "n01"}

\* a dict key that is not present / Python None / a simulator call that raised
Absent == -1
None == -1
Fail == -1

\* durations an agent can request
Durations == {MIN_PHASE_DURATION, MAX_PHASE_DURATION}

KeepAction == [type |-> "keep", phase_idx |-> None, duration |-> None]
SwitchActions == [type : {"switch"}, phase_idx : 0..(NUM_PHASES - 1), duration : Durations]
\* NoAction: the node is missing from the actions dict handed to step()
NoAction == [type |-> "none", phase_idx |-> None, duration |-> None]
Actions == {KeepAction} \cup SwitchActions

VARIABLES
    intersections,          \* config.INTERSECTIONS, in list order
    time_in_phase,          \* env.time_in_phase: node -> ticks (Absent = no key)
    current_phases,         \* env.current_phases: node -> agent phase index
    phase_durations,        \* env.phase_durations
    pending_phase_changes,  \* env.pending_phase_changes, a dict in insertion order
    current_step,           \* env.current_step
    metrics,                \* env.metrics
    loaded,                 \* traci.isLoaded()
    tlsList,                \* traci.trafficlight.getIDList() of the running simulation
    simPhase,               \* the phase the simulator is in, per traffic light
    simTime,                \* ticks the running simulation has been advanced
    pc,                     \* position of the Trainer loop / of step()
    idx,                    \* position of step()'s loop over INTERSECTIONS
    cmds,                   \* commands the simulator accepted during the current call
    lastCall,               \* the last handler call: its inputs and what the simulator answered
    out,                    \* what the last reset()/step() returned
    twin,                   \* a second, freshly constructed environment replaying the episode
    codec,                  \* an agent's select_action / store_transition round
    probe,                  \* one get_state / calculate_reward call on a traffic snapshot
    demand,                 \* the most vehicles the route file has arrive (and wait) in a tick
    run,                    \* main(): the position of the training / evaluation run
    sinceSwitch,            \* step() calls begun since a node's last honored switch (capped)
    sim_state,              \* sumo_api_server.sim_state, the SimulationState object
    tasks                   \* the API server's coroutines: a broadcast and the socket handlers

\* the variables of the API server (sumo_api_server.py)
server == <<sim_state, tasks>>

vars == <<intersections, time_in_phase, current_phases, phase_durations, pending_phase_changes,
          current_step, metrics, loaded, tlsList, simPhase, simTime, pc, idx, cmds,
          lastCall, out, twin, codec, probe, demand, sinceSwitch, server, run>>

\* ---------------------------------------------------------------------
\* Python dict kept as a sequence of entries (insertion order)
\* ---------------------------------------------------------------------
DictKeys(d) == [i \in 1..Len(d) |-> d[i].node]
HasKey(d, n) == \E i \in 1..Len(d) : d[i].node = n
DictGet(d, n) == d[CHOOSE i \in 1..Len(d) : d[i].node = n]
\* faulty variant: the entry is added without looking for an existing key
DictSet_Append(d, n, ph, du) == Append(d, [node |-> n, phase |-> ph, duration |-> du])
\* faulty variant: an existing entry is kept (first writer wins)
DictSet_KeepOld(d, n, ph, du) ==
    IF HasKey(d, n) THEN d
    ELSE Append(d, [node |-> n, phase |-> ph, duration |-> du])

\* d[n] = (ph, du)
DictSet(d, n, ph, du) ==
    IF HasKey(d, n)
    THEN [i \in 1..Len(d) |-> IF d[i].node = n THEN [node |-> n, phase |-> ph, duration |-> du] ELSE d[i]]
    ELSE Append(d, [node |-> n, phase |-> ph, duration |-> du])
\* no entry under the key
NoRecord == [node |-> "none"]
DictDel(d, n) == SelectSeq(d, LAMBDA e : e.node # n)

ZeroMetrics == [total_waiting_time |-> 0, total_throughput |-> 0, emergency_delays |-> 0,
                avg_speed |-> 0, congestion_level |-> 0]

Configured == {intersections[i] : i \in 1..Len(intersections)}

Env == [time_in_phase |-> time_in_phase, current_phases |-> current_phases,
        phase_durations |-> phase_durations, pending_phase_changes |-> pending_phase_changes,
        current_step |-> current_step, metrics |-> metrics]

\* TrafficEnvironment.__init__
NewEnv == [time_in_phase |-> [n \in Nodes |-> Absent],
           current_phases |-> [n \in Nodes |-> Absent],
           phase_durations |-> [n \in Nodes |-> Absent],
           pending_phase_changes |-> <<>>,
           current_step |-> 0,
           metrics |-> ZeroMetrics]

NoCall == [op |-> "none"]
NoOut == [kind |-> "none"]

\* ---------------------------------------------------------------------
\* The handlers, as functions of the environment's fields and of what the
\* simulator answers
\* ---------------------------------------------------------------------
SetPhaseCmd(n, ph) == [cmd |-> "setPhase", node |-> n, arg |-> ph]
SetDurationCmd(n, du) == [cmd |-> "setPhaseDuration", node |-> n, arg |-> du]

\* faulty variant: a timer that already exists is not restarted
start_simulation_KeepsTimer(e, inited) ==
    [e EXCEPT !.current_phases = [n \in Nodes |-> IF n \in inited THEN 0 ELSE e.current_phases[n]],
              !.phase_durations = [n \in Nodes |-> IF n \in inited THEN MIN_PHASE_DURATION
                                                   ELSE e.phase_durations[n]],
              !.time_in_phase = [n \in Nodes |-> IF n \in inited /\ e.time_in_phase[n] = Absent
                                                 THEN 0 ELSE e.time_in_phase[n]]]

\* start_simulation, after traci.start succeeded: every intersection of the
\* config that the simulator lists is initialised
start_simulation(e, inited) ==
    [e EXCEPT !.current_phases = [n \in Nodes |-> IF n \in inited THEN 0 ELSE e.current_phases[n]],
              !.phase_durations = [n \in Nodes |-> IF n \in inited THEN MIN_PHASE_DURATION
                                                   ELSE e.phase_durations[n]],
              !.time_in_phase = [n \in Nodes |-> IF n \in inited THEN 0 ELSE e.time_in_phase[n]]]

\* faulty variant: the metrics of the previous episode are kept
reset_KeepsMetrics(e, inited) == [start_simulation(e, inited) EXCEPT !.current_step = 0]

\* reset, after start_simulation returned: counters and metrics are cleared
reset(e, inited) ==
    [start_simulation(e, inited) EXCEPT !.current_step = 0, !.metrics = ZeroMetrics]

\* faulty variant: the timer is reset one tick late
ApplyKeep_Late(e, node, current_phase) ==
    LET t1 == e.time_in_phase[node] + 1 IN
    IF current_phase % 2 = 1 THEN [e EXCEPT !.time_in_phase[node] = t1]
    ELSE IF t1 > MAX_PHASE_DURATION THEN [e EXCEPT !.time_in_phase[node] = 0]
    ELSE [e EXCEPT !.time_in_phase[node] = t1]

\* apply_action, lines 689-701: 'keep' (the phase query succeeded)
ApplyKeep(e, node, current_phase) ==
    LET t1 == e.time_in_phase[node] + 1 IN
    IF current_phase % 2 = 1 THEN [e EXCEPT !.time_in_phase[node] = t1]
    ELSE IF t1 >= MAX_PHASE_DURATION THEN [e EXCEPT !.time_in_phase[node] = 0]
    ELSE [e EXCEPT !.time_in_phase[node] = t1]

\* faulty variant: the minimum is checked one tick short
MinDurationNotMet_OffByOne(e, node) == e.time_in_phase[node] < MIN_PHASE_DURATION - 1

\* apply_action, line 705: the minimum phase duration is not met yet
MinDurationNotMet(e, node) == e.time_in_phase[node] < MIN_PHASE_DURATION

\* faulty variant: the agent's phase index is scheduled instead of the SUMO green phase
ChangePhase_AgentIndex(e, node, action, r) ==
    LET yellow_phase == r.phase + 1 IN
    IF ~r.setPhaseOk THEN [env |-> e, cmds |-> <<>>]
    ELSE IF ~r.setDurOk THEN [env |-> e, cmds |-> <<SetPhaseCmd(node, yellow_phase)>>]
    ELSE [env |-> [e EXCEPT !.pending_phase_changes =
                                DictSet(@, node, action.phase_idx, action.duration),
                            !.current_phases[node] = action.phase_idx,
                            !.time_in_phase[node] = 0],
          cmds |-> <<SetPhaseCmd(node, yellow_phase),
                     SetDurationCmd(node, YELLOW_PHASE_DURATION)>>]

\* faulty variant: the timer is restarted before the commands are sent
ChangePhase_TimerFirst(e, node, action, r) ==
    LET sumo_green_phase == action.phase_idx * 2
        yellow_phase == r.phase + 1
        e0 == [e EXCEPT !.time_in_phase[node] = 0]
    IN
    IF ~r.setPhaseOk THEN [env |-> e0, cmds |-> <<>>]
    ELSE IF ~r.setDurOk THEN [env |-> e0, cmds |-> <<SetPhaseCmd(node, yellow_phase)>>]
    ELSE [env |-> [e0 EXCEPT !.pending_phase_changes =
                                DictSet(@, node, sumo_green_phase, action.duration),
                             !.current_phases[node] = action.phase_idx],
          cmds |-> <<SetPhaseCmd(node, yellow_phase),
                     SetDurationCmd(node, YELLOW_PHASE_DURATION)>>]

\* apply_action, lines 716-732: a different green phase is requested; the
\* simulator goes to the yellow phase and the green phase is scheduled.
\* A command that raises leaves the rest of the branch undone.
ChangePhase(e, node, action, r) ==
    LET sumo_green_phase == action.phase_idx * 2
        yellow_phase == r.phase + 1
    IN
    IF ~r.setPhaseOk THEN [env |-> e, cmds |-> <<>>]
    ELSE IF ~r.setDurOk THEN [env |-> e, cmds |-> <<SetPhaseCmd(node, yellow_phase)>>]
    ELSE [env |-> [e EXCEPT !.pending_phase_changes =
                                DictSet(@, node, sumo_green_phase, action.duration),
                            !.current_phases[node] = action.phase_idx,
                            !.time_in_phase[node] = 0],
          cmds |-> <<SetPhaseCmd(node, yellow_phase),
                     SetDurationCmd(node, YELLOW_PHASE_DURATION)>>]

\* faulty variant: the timer keeps running when only the duration is updated
UpdateDuration_KeepsTimer(e, node, action, r) ==
    IF ~r.setDurOk THEN [env |-> e, cmds |-> <<>>]
    ELSE [env |-> [e EXCEPT !.phase_durations[node] = action.duration],
          cmds |-> <<SetDurationCmd(node, action.duration)>>]

\* apply_action, lines 733-738: the current green phase is requested again
UpdateDuration(e, node, action, r) ==
    IF ~r.setDurOk THEN [env |-> e, cmds |-> <<>>]
    ELSE [env |-> [e EXCEPT !.phase_durations[node] = action.duration,
                            !.time_in_phase[node] = 0],
          cmds |-> <<SetDurationCmd(node, action.duration)>>]

\* faulty variant: a switch is carried out whatever phase the simulator reports
ApplySwitch_NoYellowCheck(e, node, action, r) ==
    IF MinDurationNotMet(e, node)
    THEN [env |-> [e EXCEPT !.time_in_phase[node] = @ + 1], cmds |-> <<>>]
    ELSE IF action.phase_idx * 2 # r.phase THEN ChangePhase(e, node, action, r)
    ELSE UpdateDuration(e, node, action, r)

\* apply_action, lines 703-738: 'switch' (the phase query succeeded)
ApplySwitch(e, node, action, r) ==
    IF MinDurationNotMet(e, node)
    THEN [env |-> [e EXCEPT !.time_in_phase[node] = @ + 1], cmds |-> <<>>]
    ELSE IF r.phase % 2 = 1 THEN [env |-> e, cmds |-> <<>>]
    ELSE IF action.phase_idx * 2 # r.phase THEN ChangePhase(e, node, action, r)
    ELSE UpdateDuration(e, node, action, r)

\* apply_action(node, action); r is what the simulator answers:
\* r.phase (Fail when getPhase raises), r.setPhaseOk, r.setDurOk.
\* The result is the environment afterwards and the commands that took effect.
\* An exception (a failed query, a missing timer key) is caught and logged.
apply_action(e, node, action, r) ==
    IF r.phase = Fail THEN [env |-> e, cmds |-> <<>>]
    ELSE IF e.time_in_phase[node] = Absent THEN [env |-> e, cmds |-> <<>>]
    ELSE IF action.type = "keep" THEN [env |-> ApplyKeep(e, node, r.phase), cmds |-> <<>>]
    ELSE IF action.type = "switch" THEN ApplySwitch(e, node, action, r)
    ELSE [env |-> e, cmds |-> <<>>]

\* faulty variant: a pending change is applied whatever the reported phase is
YellowOver_Always(current_phase) == TRUE

\* step(), line 770: the reported phase is a green one again
YellowOver(current_phase) == current_phase % 2 = 0

\* step(), lines 764-784: the loop over the pending phase changes, inside one
\* try block. r[n] is what the simulator answers for node n.
RECURSIVE ResolveLoop(_, _, _, _)
ResolveLoop(keys, pend, r, done) ==
    IF keys = <<>> THEN [pending |-> pend, cmds |-> done]
    ELSE
        LET n == Head(keys)
            rec == DictGet(pend, n)
        IN
        IF r[n].phase = Fail THEN [pending |-> pend, cmds |-> done]
        ELSE IF YellowOver(r[n].phase) THEN
            IF ~r[n].setPhaseOk THEN [pending |-> pend, cmds |-> done]
            ELSE IF ~r[n].setDurOk
                 THEN [pending |-> pend, cmds |-> Append(done, SetPhaseCmd(n, rec.phase))]
            ELSE ResolveLoop(Tail(keys), DictDel(pend, n), r,
                             done \o <<SetPhaseCmd(n, rec.phase), SetDurationCmd(n, rec.duration)>>)
        ELSE ResolveLoop(Tail(keys), pend, r, done)

resolve_pending(e, r) ==
    LET res == ResolveLoop(DictKeys(e.pending_phase_changes), e.pending_phase_changes, r, <<>>)
    IN [env |-> [e EXCEPT !.pending_phase_changes = res.pending], cmds |-> res.cmds]

\* the simulator obeys a setPhase command; a duration command does not change the phase
RECURSIVE ObeyCmds(_, _)
ObeyCmds(ph, cs) ==
    IF cs = <<>> THEN ph
    ELSE LET c == Head(cs) IN
         ObeyCmds(IF c.cmd = "setPhase" THEN [ph EXCEPT ![c.node] = c.arg] ELSE ph, Tail(cs))

\* get_state: an intersection whose controlled lanes cannot be resolved gets the
\* zero vector; otherwise the vector carries the tracked phase and timer.
\* Reading a missing key of current_phases / time_in_phase raises KeyError.
ZeroObs == [zero |-> TRUE, phase |-> 0, timer |-> 0]
get_state(e, lanes) ==
    [n \in Configured |-> IF n \in lanes
                     THEN [zero |-> FALSE, phase |-> e.current_phases[n], timer |-> e.time_in_phase[n]]
                     ELSE ZeroObs]
\* get_state raises when a per-lane read of lines 480-516 raises (they are
\* outside every try block: bad holds the intersections where one does) or
\* when the node has no key in current_phases (KeyError, line 511)
get_state_raises(e, lanes, bad) ==
    \E n \in lanes : n \in bad \/ e.current_phases[n] = Absent

\* ---------------------------------------------------------------------
\* What the simulator answers about the traffic at one intersection
\* ---------------------------------------------------------------------
MaxLanes == 2
MaxListedLanes == 9
MaxOutLanes == 2
MaxFailures == 1

\* a lane is empty or holds one waiting vehicle
LaneKinds == {"empty", "car", "ambulance"}
VehiclesOn(kind) == IF kind = "empty" THEN <<>> ELSE <<[vtype |-> kind, waiting |-> 1]>>
\* SUMO reports the allowed speed (m/s) for a lane without vehicles
MeanSpeed(kind) == IF kind = "empty" THEN 12 ELSE 0
Occupancy(kind) == IF kind = "empty" THEN 0 ELSE 50

EmergencyTypes == {"ambulance", "firetruck", "police"}
PRIORITY_WEIGHTS(vtype) ==
    CASE vtype = "ambulance" -> 10
      [] vtype = "car" -> 3
      [] OTHER -> 1

\* one traci call: its name and the lane (out-lane) it is about, 0 for none
Q(name, at) == [q |-> name, at |-> at]
LaneReads == {"getLastStepVehicleIDs", "getLastStepMeanSpeed", "getLastStepHaltingNumber",
              "getLastStepVehicleNumber"}
VehicleReads == {"getTypeID", "getWaitingTime"}
\* the calls calculate_reward makes when the lane list is lanes and the
\* controlled links lead to Len(outs) lanes
QueriesOf(lanes, outs) ==
    {Q("getControlledLanes", 0), Q("getArrivedNumber", 0), Q("getControlledLinks", 0)}
    \cup {Q(nm, i) : nm \in LaneReads, i \in 1..Len(lanes)}
    \cup {Q(nm, i) : nm \in VehicleReads, i \in {j \in 1..Len(lanes) : lanes[j] # "empty"}}
    \cup {Q("getLastStepVehicleNumber(out)", k) : k \in 1..Len(outs)}

\* a snapshot: the controlled lanes (after set()), the arrivals of the tick,
\* the vehicle numbers of the outgoing lanes and the calls that raise
Snapshot(lanes, arrived, outs, failed) ==
    [lanes |-> lanes, arrived |-> arrived, outs |-> outs, failed |-> failed]
Fails(t, name, at) == Q(name, at) \in t.failed

RECURSIVE SumTo(_, _)
SumTo(f, n) == IF n = 0 THEN 0 ELSE f[n] + SumTo(f, n - 1)
Abs(x) == IF x < 0 THEN 0 - x ELSE x

\* numpy's nan: every sum it enters is nan again
NaN == 0 - 1000000

\* calculate_reward, lines 569-593, in tenths: the waiting-time penalty. A lane
\* whose vehicle list cannot be read and a vehicle whose type or waiting time
\* cannot be read are skipped.
WaitingTerm(t) ==
    LET lane(i) ==
            IF Fails(t, "getLastStepVehicleIDs", i) THEN [emergency |-> 0, total |-> 0]
            ELSE LET vs == VehiclesOn(t.lanes[i])
                     veh(v) ==
                        IF Fails(t, "getTypeID", i) \/ Fails(t, "getWaitingTime", i)
                        THEN [emergency |-> 0, total |-> 0]
                        ELSE IF vs[v].vtype \in EmergencyTypes
                        THEN [emergency |-> vs[v].waiting * PRIORITY_WEIGHTS(vs[v].vtype), total |-> 0]
                        ELSE [emergency |-> 0, total |-> vs[v].waiting * PRIORITY_WEIGHTS(vs[v].vtype)]
                 IN [emergency |-> SumTo([v \in 1..Len(vs) |-> veh(v).emergency], Len(vs)),
                     total |-> SumTo([v \in 1..Len(vs) |-> veh(v).total], Len(vs))]
        n == Len(t.lanes)
        emergency_waiting == SumTo([i \in 1..n |-> lane(i).emergency], n)
        total_waiting == SumTo([i \in 1..n |-> lane(i).total], n)
    IN 0 - emergency_waiting * 50 - total_waiting * 1

\* lines 595-600: the throughput reward
ThroughputTerm(t) == IF Fails(t, "getArrivedNumber", 0) THEN 0 ELSE t.arrived * 5

\* lines 602-607: the speed reward; np.mean of an empty list is nan
SpeedTerm(t) ==
    LET n == Len(t.lanes) IN
    IF \E i \in 1..n : Fails(t, "getLastStepMeanSpeed", i) THEN 0
    ELSE IF n = 0 THEN NaN
    ELSE (2 * SumTo([i \in 1..n |-> MeanSpeed(t.lanes[i])], n)) \div n

\* lines 609-614: the queue penalty
QueueTerm(t) ==
    LET n == Len(t.lanes) IN
    IF \E i \in 1..n : Fails(t, "getLastStepHaltingNumber", i) THEN 0
    ELSE 0 - 3 * SumTo([i \in 1..n |-> Len(VehiclesOn(t.lanes[i]))], n)

\* lines 616-631: the pressure penalty; an outgoing lane that cannot be read
\* is left out of the outgoing count
PressureTerm(t) ==
    LET n == Len(t.lanes)
        m == Len(t.outs)
        incoming_vehicles == SumTo([i \in 1..n |-> Len(VehiclesOn(t.lanes[i]))], n)
        outgoing_vehicles ==
            SumTo([k \in 1..m |-> IF Fails(t, "getLastStepVehicleNumber(out)", k) THEN 0
                                  ELSE t.outs[k]], m)
    IN
    IF (\E i \in 1..n : Fails(t, "getLastStepVehicleNumber", i)) \/ Fails(t, "getControlledLinks", 0)
    THEN 0
    ELSE 0 - 2 * Abs(incoming_vehicles - outgoing_vehicles)

\* lines 633-635: the phase change penalty
ChurnTerm(timer) == IF timer < CHURN_THRESHOLD THEN 0 - 20 ELSE 0

RewardTerms(timer, t) ==
    [waiting |-> WaitingTerm(t), throughput |-> ThroughputTerm(t), speed |-> SpeedTerm(t),
     queue |-> QueueTerm(t), pressure |-> PressureTerm(t), churn |-> ChurnTerm(timer)]

\* the float sum of the six terms
SumTerms(x) ==
    IF x.speed = NaN THEN NaN
    ELSE x.waiting + x.throughput + x.speed + x.queue + x.pressure + x.churn

\* calculate_reward for an intersection whose timer is timer, in tenths, on
\* the snapshot t: 0 when the lane query raises, else the sum of the terms
calculate_reward_on(timer, t) ==
    IF Fails(t, "getControlledLanes", 0) THEN 0
    ELSE SumTerms(RewardTerms(timer, t))

\* the episode specifications run on a network with LanesPerNode controlled
\* lanes at every intersection and without vehicles
LanesPerNode == 1
QuietTraffic == Snapshot([i \in 1..LanesPerNode |-> "empty"], 0, <<>>, {})

\* calculate_reward(node) within step(): lanes holds the intersections whose
\* lane query answers, arrived is the arrival count of the tick
calculate_reward(e, n, lanes, arrived) ==
    IF n \notin lanes THEN calculate_reward_on(e.time_in_phase[n], Snapshot(<<>>, 0, <<>>, {Q("getControlledLanes", 0)}))
    ELSE calculate_reward_on(e.time_in_phase[n], [QuietTraffic EXCEPT !.arrived = arrived])
calculate_reward_raises(e, lanes) == \E n \in lanes : e.time_in_phase[n] = Absent

\* check_congestion: congested / total lanes in percent, 0 when there is no lane
CONGESTION_THRESHOLD == 70
CONGESTION_PENALTY == 500
OCCUPANCY_THRESHOLD == 70
congestion_ratio(congested, total) == IF total > 0 THEN (100 * congested) \div total ELSE 0
\* occ: the occupancy readings (percent; Fail when the read raised) of the
\* controlled lanes of all intersections. A lane is counted before it is read.
check_congestion(occ) ==
    congestion_ratio(Cardinality({i \in 1..Len(occ) : occ[i] > OCCUPANCY_THRESHOLD}), Len(occ))

\* faulty variant: the time budget is tested one step late
TimeUp_Late(step) == step > EPISODE_DURATION

\* step(), line 798
TimeUp(step) == step >= EPISODE_DURATION

\* faulty variant: the penalty is charged on every tick
CongestionPenalty_Always(r, congested) == r - CONGESTION_PENALTY

\* step(), lines 804-806: the reward of one intersection after the congestion check
CongestionPenalty(r, congested) == IF congested THEN r - CONGESTION_PENALTY ELSE r

\* step(), lines 786-819, as a function of the environment and of the simulator's
\* answers: the lanes resolvable for get_state and for calculate_reward, the
\* intersections where a lane read of get_state raises, and the occupancy
\* readings seen by check_congestion
\* step(), lines 808-817: the metrics are updated inside one try block. m holds
\* the tick's total waiting time and arrival count and the read that raises:
\* the waiting-time sum is added first, then the arrival count is assigned.
update_metrics(e, m) ==
    IF m.fails = "waiting" THEN e
    ELSE IF m.fails = "arrived"
         THEN [e EXCEPT !.metrics.total_waiting_time = @ + m.waiting]
    ELSE [e EXCEPT !.metrics.total_waiting_time = @ + m.waiting,
                   !.metrics.total_throughput = m.arrived]

step_finish(e, obsLanes, bad, rewLanes, occ, m) ==
    LET e1 == [e EXCEPT !.current_step = @ + 1]
        timeUp == TimeUp(e1.current_step)
        ratio == check_congestion(occ)
        congested == ~timeUp /\ ratio > CONGESTION_THRESHOLD
        e2 == IF timeUp THEN e1 ELSE [e1 EXCEPT !.metrics.congestion_level = ratio]
        rewards == [n \in Configured |->
                       CongestionPenalty(calculate_reward(e1, n, rewLanes, m.arrived), congested)]
    IN
    IF get_state_raises(e1, obsLanes, bad) \/ calculate_reward_raises(e1, rewLanes)
    THEN [env |-> e1, out |-> [kind |-> "raise"]]
    ELSE [env |-> update_metrics(e2, m),
          out |-> [kind |-> "step", obs |-> get_state(e1, obsLanes), rewards |-> rewards,
                   done |-> (timeUp \/ congested), congested |-> congested]]

\* faulty variant: the failed tick is reported as an ordinary, non-terminal step
step_failed_NotTerminal(e, lanes, bad) ==
    IF get_state_raises(e, lanes, bad) THEN [kind |-> "raise"]
    ELSE [kind |-> "step", obs |-> get_state(e, lanes), rewards |-> <<>>,
          done |-> FALSE, congested |-> FALSE]

\* step(), lines 757-762: what step returns when traci.simulationStep() raised
step_failed(e, lanes, bad) ==
    IF get_state_raises(e, lanes, bad) THEN [kind |-> "raise"]
    ELSE [kind |-> "step", obs |-> get_state(e, lanes), rewards |-> <<>>,
          done |-> TRUE, congested |-> FALSE]

\* reset(), line 453: what reset returns
reset_result(e, lanes, bad) ==
    IF get_state_raises(e, lanes, bad) THEN [kind |-> "raise"]
    ELSE [kind |-> "reset", obs |-> get_state(e, lanes)]

\* what the simulator can answer to the calls of apply_action / of the pending loop
Answers(n) ==
    IF loaded /\ n \in tlsList
    THEN {[phase |-> simPhase[n], setPhaseOk |-> TRUE, setDurOk |-> TRUE],
          [phase |-> simPhase[n], setPhaseOk |-> FALSE, setDurOk |-> TRUE],
          [phase |-> simPhase[n], setPhaseOk |-> TRUE, setDurOk |-> FALSE],
          [phase |-> Fail, setPhaseOk |-> TRUE, setDurOk |-> TRUE]}
    ELSE {[phase |-> Fail, setPhaseOk |-> TRUE, setDurOk |-> TRUE]}

\* a keep action only queries the phase; a missing action queries nothing
AnswersTo(n, action) ==
    IF action.type = "switch" THEN Answers(n)
    ELSE IF action.type = "keep" THEN {a \in Answers(n) : a.setPhaseOk /\ a.setDurOk}
    ELSE {CHOOSE a \in Answers(n) : a.setPhaseOk /\ a.setDurOk}

\* the lane queries of an intersection the simulator does not know raise
LaneAnswers == IF loaded THEN SUBSET tlsList ELSE {{}}

\* the network has LanesPerNode controlled lanes at every intersection; the
\* occupancy reads answer a percentage or raise, and no lane is seen when the
\* lane queries raise
OccupancyAnswers ==
    IF loaded /\ tlsList \cap Configured # {}
    THEN {<<>>} \cup [1..(LanesPerNode * Cardinality(tlsList \cap Configured)) -> {Fail, 70, 71}]
    ELSE {<<>>}

\* what the simulator holds for the metrics of step(), lines 808-817: the total
\* waiting time of the vehicles on the network, the arrivals of the tick, and
\* the read that raises, if one does
MetricAnswers ==
    [waiting : 0..demand, arrived : 0..demand, fails : {"none", "waiting", "arrived"}]

SetEnv(e) ==
    /\ time_in_phase' = e.time_in_phase
    /\ current_phases' = e.current_phases
    /\ phase_durations' = e.phase_durations
    /\ pending_phase_changes' = e.pending_phase_changes
    /\ current_step' = e.current_step
    /\ metrics' = e.metrics

TwinOff == [on |-> FALSE]
NoCodec == [stage |-> "off"]
NoProbe == [stage |-> "off"]
\* no training / evaluation run is modelled: reset() and step() are called freely
RunOff == [stage |-> "off"]
\* Trainer.train line 1428 / evaluate line 1530: the episode loop has an
\* iteration left and the previous episode is over
EpisodeMayStart ==
    run = RunOff \/ (run.stage \in {"train", "evaluate"} /\ ~run.in_episode /\ run.left > 0)
EpisodeStarted ==
    IF run = RunOff THEN run ELSE [run EXCEPT !.in_episode = TRUE, !.left = @ - 1]

\* no switch was honored in the last MIN_PHASE_DURATION - 1 step() calls
NoSwitch == [n \in Nodes |-> MIN_PHASE_DURATION]
\* the honored switches are not being counted
SwitchOff == [n \in Nodes |-> Absent]
\* apply_action ran a switch branch to its end (lines 716-732 or 733-738): the
\* last command the simulator accepted is the set-duration one
SwitchCompleted(cs) == cs # <<>> /\ cs[Len(cs)].cmd = "setPhaseDuration"

\* the WebSocket clients that can connect to the API server
Clients == {"w1", "w2"}
\* sim_state.rl_controller is None
NoController == [algorithm |-> "none"]
\* sumo_api_server.py, lines 52-64: sim_state = SimulationState()
SimulationState ==
    [is_running |-> FALSE, is_paused |-> FALSE, current_step |-> 0,
     websocket_clients |-> <<>>, rl_controller |-> NoController]
\* no broadcast is under way and no socket handler runs
NoTasks ==
    [broadcast |-> [pc |-> "idle"],
     handler |-> [c \in Clients |-> "none"],
     open |-> [c \in Clients |-> FALSE]]

\* the state after TrafficEnvironment.__init__, before the first episode
InitEnv ==
    /\ time_in_phase = NewEnv.time_in_phase
    /\ current_phases = NewEnv.current_phases
    /\ phase_durations = NewEnv.phase_durations
    /\ pending_phase_changes = NewEnv.pending_phase_changes
    /\ current_step = NewEnv.current_step
    /\ metrics = NewEnv.metrics
    /\ loaded = FALSE
    /\ tlsList = {}
    /\ simPhase = [n \in Nodes |-> 0]
    /\ simTime = 0
    /\ pc = "ended"
    /\ idx = 1
    /\ cmds = <<>>
    /\ lastCall = NoCall
    /\ out = NoOut
    /\ demand = 0
    /\ run = RunOff
    /\ sim_state = SimulationState
    /\ tasks = NoTasks

Init ==
    /\ intersections = <<"n00">>
    /\ InitEnv
    /\ twin = TwinOff
    /\ codec = NoCodec
    /\ probe = NoProbe
    /\ sinceSwitch = SwitchOff

\* the same program, with the step() calls since each intersection's last
\* honored switch counted
InitSwitch ==
    /\ intersections = <<"n00">>
    /\ InitEnv
    /\ twin = TwinOff
    /\ codec = NoCodec
    /\ probe = NoProbe
    /\ sinceSwitch = NoSwitch

\* Trainer.train line 1430: env.reset(). traci.start raises: reset raises and the
\* episode is skipped.
ResetFails ==
    /\ pc = "ended"
    /\ codec = NoCodec
    /\ EpisodeMayStart
    /\ run' = EpisodeStarted
    /\ sinceSwitch' = IF sinceSwitch = SwitchOff THEN SwitchOff ELSE NoSwitch
    /\ loaded' = FALSE
    /\ pc' = "ended"
    /\ cmds' = <<>>
    /\ lastCall' = [op |-> "reset", ok |-> FALSE, inited |-> {}, bad |-> {}]
    /\ out' = [kind |-> "raise"]
    /\ twin' = IF twin.on THEN [on |-> TRUE, env |-> NewEnv, out |-> [kind |-> "raise"]] ELSE twin
    /\ UNCHANGED <<time_in_phase, current_phases, phase_durations, pending_phase_changes,
                   current_step, metrics, tlsList, simPhase, simTime, idx, intersections, codec, probe, demand, server>>

\* env.reset(): the old connection is closed, the simulator restarts in phase 0,
\* the listed intersections are initialised, counters and metrics are cleared
\* and the first observations are returned.
Reset ==
    /\ pc = "ended"
    /\ codec = NoCodec
    /\ EpisodeMayStart
    /\ run' = EpisodeStarted
    /\ sinceSwitch' = IF sinceSwitch = SwitchOff THEN SwitchOff ELSE NoSwitch
    /\ \E known \in SUBSET Configured : \E lanes \in SUBSET known : \E bad \in SUBSET lanes :
        LET e == reset(Env, known)
            res == reset_result(e, lanes, bad)
            te == reset(NewEnv, known)
        IN
        /\ SetEnv(e)
        /\ loaded' = TRUE
        /\ tlsList' = known
        /\ simPhase' = [n \in Nodes |-> 0]
        /\ simTime' = 0
        /\ lastCall' = [op |-> "reset", ok |-> TRUE, inited |-> known, bad |-> bad]
        /\ out' = res
        /\ pc' = IF res.kind = "raise" THEN "ended" ELSE "apply"
        /\ twin' = IF twin.on THEN [on |-> TRUE, env |-> te, out |-> reset_result(te, lanes, bad)]
                   ELSE twin
    /\ idx' = 1
    /\ cmds' = <<>>
    /\ UNCHANGED <<intersections, codec, probe, demand, server>>

\* step(), lines 750-752: apply_action for the next intersection of the list
\* (skipped when the actions dict has no entry for it)
ApplyAction ==
    /\ pc = "apply"
    /\ LET node == intersections[idx] IN
       \E action \in Actions \cup {NoAction} : \E r \in AnswersTo(node, action) :
        LET res == IF action = NoAction THEN [env |-> Env, cmds |-> <<>>]
                   ELSE apply_action(Env, node, action, r)
            tres == IF action = NoAction THEN [env |-> twin.env, cmds |-> <<>>]
                    ELSE apply_action(twin.env, node, action, r)
        IN
        /\ lastCall' = [op |-> "apply_action", node |-> node, action |-> action, r |-> r,
                        replaced |-> IF HasKey(pending_phase_changes, node)
                                     THEN DictGet(pending_phase_changes, node) ELSE NoRecord]
        /\ SetEnv(res.env)
        /\ cmds' = res.cmds
        /\ simPhase' = ObeyCmds(simPhase, res.cmds)
        /\ twin' = IF twin.on THEN [twin EXCEPT !.env = tres.env, !.out = NoOut] ELSE twin
        /\ sinceSwitch' = IF sinceSwitch = SwitchOff THEN SwitchOff
                          ELSE [sinceSwitch EXCEPT ![node] =
                                   IF SwitchCompleted(res.cmds) THEN 0
                                   ELSE IF @ < MIN_PHASE_DURATION THEN @ + 1 ELSE @]
    /\ IF idx < Len(intersections)
       THEN idx' = idx + 1 /\ pc' = "apply"
       ELSE idx' = 1 /\ pc' = "tick"
    /\ out' = NoOut
    /\ UNCHANGED <<loaded, tlsList, simTime, intersections, codec, probe, demand, server, run>>

\* one simulator tick: every traffic light stays in its phase or moves on to
\* the next phase of its program
NextPhases(ph) ==
    {q \in [Nodes -> 0..(NUM_SUMO_PHASES - 1)] :
        \A n \in Nodes : IF n \in tlsList
                         THEN q[n] \in {ph[n], (ph[n] + 1) % NUM_SUMO_PHASES}
                         ELSE q[n] = ph[n]}

\* faulty variant: the simulator is advanced two ticks
Tick_Twice ==
    /\ pc = "tick"
    /\ \E q \in NextPhases(simPhase) : \E q2 \in NextPhases(q) : simPhase' = q2
    /\ simTime' = simTime + 2
    /\ pc' = "resolve"
    /\ cmds' = <<>>
    /\ lastCall' = [op |-> "simulationStep", ok |-> TRUE]
    /\ UNCHANGED <<time_in_phase, current_phases, phase_durations, pending_phase_changes,
                   current_step, metrics, loaded, tlsList, idx, out, intersections, twin, codec, probe, demand, sinceSwitch, server, run>>

\* step(), lines 754-756: traci.simulationStep() succeeds
Tick ==
    /\ pc = "tick"
    /\ \E q \in NextPhases(simPhase) : simPhase' = q
    /\ simTime' = simTime + 1
    /\ pc' = "resolve"
    /\ cmds' = <<>>
    /\ lastCall' = [op |-> "simulationStep", ok |-> TRUE]
    /\ UNCHANGED <<time_in_phase, current_phases, phase_durations, pending_phase_changes,
                   current_step, metrics, loaded, tlsList, idx, out, intersections, twin, codec, probe, demand, sinceSwitch, server, run>>

\* step(), lines 757-762: traci.simulationStep() raises; step returns the current
\* observations, no rewards and done = True
TickFails ==
    /\ pc = "tick"
    /\ \E stillLoaded \in BOOLEAN :
        /\ loaded' = stillLoaded
        /\ \E lanes \in (IF stillLoaded THEN SUBSET tlsList ELSE {{}}) : \E bad \in SUBSET lanes :
            /\ lastCall' = [op |-> "simulationStep", ok |-> FALSE, bad |-> bad]
            /\ out' = step_failed(Env, lanes, bad)
            /\ twin' = IF twin.on THEN [twin EXCEPT !.out = step_failed(twin.env, lanes, bad)]
                       ELSE twin
    /\ pc' = "ended"
    /\ cmds' = <<>>
    /\ UNCHANGED <<time_in_phase, current_phases, phase_durations, pending_phase_changes,
                   current_step, metrics, tlsList, simPhase, simTime, idx, intersections, codec, probe, demand, sinceSwitch, server, run>>

\* step(), lines 764-784: pending phase changes are applied where the yellow is over
ResolvePending ==
    /\ pc = "resolve"
    /\ \E r \in [Nodes -> UNION {Answers(n) : n \in Nodes}] :
        /\ \A n \in Nodes : r[n] \in Answers(n)
        /\ \A n \in Nodes : ~HasKey(pending_phase_changes, n) => r[n] = CHOOSE a \in Answers(n) : TRUE
        /\ LET res == resolve_pending(Env, r) IN
            /\ SetEnv(res.env)
            /\ cmds' = res.cmds
            /\ simPhase' = ObeyCmds(simPhase, res.cmds)
            /\ lastCall' = [op |-> "resolve", r |-> r, before |-> pending_phase_changes]
            /\ twin' = IF twin.on THEN [twin EXCEPT !.env = resolve_pending(twin.env, r).env]
                       ELSE twin
    /\ pc' = "finish"
    /\ UNCHANGED <<loaded, tlsList, simTime, idx, out, intersections, codec, probe, demand, sinceSwitch, server, run>>

\* step(), lines 786-819: the step counter advances, observations and rewards
\* are computed, termination is evaluated and the metrics are updated
Finish ==
    /\ pc = "finish"
    /\ \E obsLanes \in LaneAnswers : \E bad \in SUBSET obsLanes :
       \E rewLanes \in LaneAnswers : \E occ \in OccupancyAnswers : \E m \in MetricAnswers :
        LET res == step_finish(Env, obsLanes, bad, rewLanes, occ, m)
            tres == step_finish(twin.env, obsLanes, bad, rewLanes, occ, m)
        IN
        /\ lastCall' = [op |-> "finish", obsLanes |-> obsLanes, bad |-> bad,
                         rewLanes |-> rewLanes, occ |-> occ,
                         waiting |-> m.waiting, arrived |-> m.arrived]
        /\ SetEnv(res.env)
        /\ out' = res.out
        /\ pc' = IF res.out.kind = "raise" \/ res.out.done THEN "ended" ELSE "apply"
        /\ twin' = IF twin.on THEN [twin EXCEPT !.env = tres.env, !.out = tres.out] ELSE twin
    /\ cmds' = <<>>
    /\ UNCHANGED <<loaded, tlsList, simPhase, simTime, idx, intersections, codec, probe, demand, sinceSwitch, server, run>>

\* ---------------------------------------------------------------------
\* Action codecs of the agents
\* ---------------------------------------------------------------------
DEFAULT_MIN_PHASE_DURATION == 12
DEFAULT_MAX_PHASE_DURATION == 30
MaxCodecMin == 3
MaxCodecSpan == 5
\* (MIN_PHASE_DURATION, MAX_PHASE_DURATION) pairs of the configuration
CodecConfigs ==
    {<<mn, mn + sp>> : mn \in 1..MaxCodecMin, sp \in 0..MaxCodecSpan}
    \cup {<<DEFAULT_MIN_PHASE_DURATION, DEFAULT_MAX_PHASE_DURATION>>}

Min(a, b) == IF a < b THEN a ELSE b

num_durations(mn, mx) == (mx - mn) \div 2 + 1

\* MultiAgentCoordinator.__init__, lines 1289-1297
action_size(mn, mx, keep) ==
    IF keep THEN 1 + NUM_PHASES * num_durations(mn, mx)
    ELSE NUM_PHASES * num_durations(mn, mx)

\* the decoding shared, line for line, by the three select_action methods
DecodeSwitch(i, mn, mx) ==
    LET phase_idx == i % NUM_PHASES
        duration_idx == i \div NUM_PHASES
        duration == Min(mn + duration_idx * 2, mx)
    IN [type |-> "switch", phase_idx |-> phase_idx, duration |-> duration]

\* faulty variant: the index is not decremented past the keep slot
PPO_select_action_NoShift(i, mn, mx, keep) ==
    IF keep THEN (IF i = 0 THEN KeepAction ELSE DecodeSwitch(i, mn, mx))
    ELSE DecodeSwitch(i, mn, mx)

\* PPOAgent.select_action, lines 1000-1019
PPO_select_action(i, mn, mx, keep) ==
    IF keep THEN (IF i = 0 THEN KeepAction ELSE DecodeSwitch(i - 1, mn, mx))
    ELSE DecodeSwitch(i, mn, mx)

\* A3CAgent.select_action, lines 1165-1184
A3C_select_action(i, mn, mx, keep) ==
    IF keep THEN (IF i = 0 THEN KeepAction ELSE DecodeSwitch(i - 1, mn, mx))
    ELSE DecodeSwitch(i, mn, mx)

\* DQNAgent.select_action, lines 878-898 (the greedy branch)
DQN_select_action(i, mn, mx, keep) ==
    IF keep THEN (IF i = 0 THEN KeepAction ELSE DecodeSwitch(i - 1, mn, mx))
    ELSE DecodeSwitch(i, mn, mx)

\* DQNAgent.select_action, lines 861-871: the exploratory actions
DQN_random_actions(mn, mx, keep) ==
    (IF keep THEN {KeepAction} ELSE {})
    \cup [type : {"switch"}, phase_idx : 0..(NUM_PHASES - 1), duration : mn..mx]

\* select_action, lines 1021 / 1186: the index whose probability is logged is
\* read after the decoding has decremented action_idx
log_prob_index(i, keep) == IF keep /\ i # 0 THEN i - 1 ELSE i

\* faulty variant: the encoder strides by 8 phases
PPO_store_transition_Stride8(action, mn, mx, keep) ==
    LET duration_idx == (action.duration - mn) \div 2 IN
    IF keep THEN (IF action.type = "keep" THEN 0
                  ELSE 1 + action.phase_idx + duration_idx * 8)
    ELSE action.phase_idx + duration_idx * 8

\* PPOAgent.store_transition, lines 1025-1043: the index that is stored
PPO_store_transition(action, mn, mx, keep) ==
    LET duration_idx == (action.duration - mn) \div 2 IN
    IF keep THEN (IF action.type = "keep" THEN 0
                  ELSE 1 + action.phase_idx + duration_idx * NUM_PHASES)
    ELSE action.phase_idx + duration_idx * NUM_PHASES

\* A3CAgent.store_transition, lines 1190-1208
A3C_store_transition(action, mn, mx, keep) ==
    LET duration_idx == (action.duration - mn) \div 2 IN
    IF keep THEN (IF action.type = "keep" THEN 0
                  ELSE 1 + action.phase_idx + duration_idx * NUM_PHASES)
    ELSE action.phase_idx + duration_idx * NUM_PHASES

\* MultiAgentCoordinator.train_all, lines 1350-1368: the DQN encoding
DQN_STRIDE == 8
train_all_encode(action, mn, mx, keep) ==
    LET duration_idx == (action.duration - mn) \div 2 IN
    IF keep THEN (IF action.type = "keep" THEN 0
                  ELSE 1 + action.phase_idx + duration_idx * DQN_STRIDE)
    ELSE action.phase_idx + duration_idx * DQN_STRIDE

CodecStart(mn, mx, keep) ==
    [stage |-> "select", minD |-> mn, maxD |-> mx, keep |-> keep, agent |-> "none",
     action_idx |-> None, action |-> NoAction, log_prob_idx |-> None, stored |-> None]

InitCodec ==
    /\ intersections = <<"n00">>
    /\ InitEnv
    /\ sinceSwitch = SwitchOff
    /\ twin = TwinOff
    /\ \E c \in CodecConfigs : \E keep \in BOOLEAN : codec = CodecStart(c[1], c[2], keep)
    /\ probe = NoProbe

envVars == <<intersections, time_in_phase, current_phases, phase_durations,
             pending_phase_changes, current_step, metrics, loaded, tlsList, simPhase,
             simTime, pc, idx, cmds, lastCall, out, twin, demand, sinceSwitch, server, run>>

\* coordinator.select_actions with a PPO agent: an index is sampled and decoded
PPOSelect ==
    /\ codec.stage = "select"
    /\ \E i \in 0..(action_size(codec.minD, codec.maxD, codec.keep) - 1) :
        codec' = [codec EXCEPT !.stage = "store", !.agent = "PPO", !.action_idx = i,
                     !.action = PPO_select_action(i, codec.minD, codec.maxD, codec.keep),
                     !.log_prob_idx = log_prob_index(i, codec.keep), !.stored = None]
    /\ UNCHANGED <<envVars, probe>>

\* coordinator.train_all with a PPO agent: store_transition encodes the action
PPOStore ==
    /\ codec.stage = "store" /\ codec.agent = "PPO"
    /\ codec' = [codec EXCEPT !.stage = "stored",
                    !.stored = PPO_store_transition(codec.action, codec.minD, codec.maxD, codec.keep)]
    /\ UNCHANGED <<envVars, probe>>

A3CSelect ==
    /\ codec.stage = "select"
    /\ \E i \in 0..(action_size(codec.minD, codec.maxD, codec.keep) - 1) :
        codec' = [codec EXCEPT !.stage = "store", !.agent = "A3C", !.action_idx = i,
                     !.action = A3C_select_action(i, codec.minD, codec.maxD, codec.keep),
                     !.log_prob_idx = log_prob_index(i, codec.keep), !.stored = None]
    /\ UNCHANGED <<envVars, probe>>

A3CStore ==
    /\ codec.stage = "store" /\ codec.agent = "A3C"
    /\ codec' = [codec EXCEPT !.stage = "stored",
                    !.stored = A3C_store_transition(codec.action, codec.minD, codec.maxD, codec.keep)]
    /\ UNCHANGED <<envVars, probe>>

\* a DQN agent exploits: the argmax index is decoded
DQNSelect ==
    /\ codec.stage = "select"
    /\ \E i \in 0..(action_size(codec.minD, codec.maxD, codec.keep) - 1) :
        codec' = [codec EXCEPT !.stage = "store", !.agent = "DQN", !.action_idx = i,
                     !.action = DQN_select_action(i, codec.minD, codec.maxD, codec.keep),
                     !.log_prob_idx = None, !.stored = None]
    /\ UNCHANGED <<envVars, probe>>

\* a DQN agent explores: a random action, not derived from an index
DQNExplore ==
    /\ codec.stage = "select"
    /\ \E a \in DQN_random_actions(codec.minD, codec.maxD, codec.keep) :
        codec' = [codec EXCEPT !.stage = "store", !.agent = "DQN", !.action_idx = None,
                     !.action = a, !.log_prob_idx = None, !.stored = None]
    /\ UNCHANGED <<envVars, probe>>

\* coordinator.train_all with a DQN agent: the coordinator encodes the action
DQNStore ==
    /\ codec.stage = "store" /\ codec.agent = "DQN"
    /\ codec' = [codec EXCEPT !.stage = "stored",
                    !.stored = train_all_encode(codec.action, codec.minD, codec.maxD, codec.keep)]
    /\ UNCHANGED <<envVars, probe>>

\* the Trainer loop goes on to the next selection
NextRound ==
    /\ codec.stage = "stored"
    /\ codec' = CodecStart(codec.minD, codec.maxD, codec.keep)
    /\ UNCHANGED <<envVars, probe>>

NextCodec ==
    \/ PPOSelect
    \/ PPOStore
    \/ A3CSelect
    \/ A3CStore
    \/ DQNSelect
    \/ DQNExplore
    \/ DQNStore
    \/ NextRound

SpecCodec == InitCodec /\ [][NextCodec]_vars

\* ---------------------------------------------------------------------
\* The observation vector and the reward on a traffic snapshot
\* ---------------------------------------------------------------------
MAX_OBS_LANES == 8
MAX_NEIGHBORS == 4
ZERO_STATE_SIZE == 75

\* a feature is a pair <<raw value, normalisation constant>>
Zero == <<0, 1>>
Take(s, n) == IF Len(s) <= n THEN s ELSE SubSeq(s, 1, n)
\* s + [0] * (n - len(s)): nothing is added when s is already longer
Pad(s, n) == IF Len(s) >= n THEN s ELSE s \o [i \in 1..(n - Len(s)) |-> Zero]

\* _build_neighbor_map: the neighbours of node n<i><j> on the 3x3 grid
neighbors(i, j) ==
    (IF i > 0 THEN << <<i - 1, j>> >> ELSE <<>>)
    \o (IF i < 2 THEN << <<i + 1, j>> >> ELSE <<>>)
    \o (IF j > 0 THEN << <<i, j - 1>> >> ELSE <<>>)
    \o (IF j < 2 THEN << <<i, j + 1>> >> ELSE <<>>)

\* get_state, lines 479-555: the vector assembled for an intersection with
\* tracked phase and timer, on the snapshot t; nbrs[k] tells whether the k-th
\* neighbour's lanes can be read
node_state(phase, timer, t, nbrs) ==
    LET unique_lanes == Take(t.lanes, MAX_OBS_LANES)
        n == Len(unique_lanes)
        veh(i) == VehiclesOn(unique_lanes[i])
        queues == [i \in 1..n |-> <<Len(veh(i)), 20>>]
        waiting_times == [i \in 1..n |-> <<SumTo([v \in 1..Len(veh(i)) |-> veh(i)[v].waiting], Len(veh(i))), 100>>]
        speeds == [i \in 1..n |-> <<10 * MeanSpeed(unique_lanes[i]), 139>>]
        occupancy == [i \in 1..n |-> <<Occupancy(unique_lanes[i]), 100>>]
        emergency_present ==
            [i \in 1..MAX_OBS_LANES |->
                IF i <= n /\ \E v \in 1..Len(veh(i)) : veh(i)[v].vtype \in EmergencyTypes
                THEN <<1, 1>> ELSE Zero]
        incoming_vehicles == SumTo([i \in 1..n |-> Len(veh(i))], n)
        outgoing_vehicles == SumTo(t.outs, Len(t.outs))
        pressure == <<incoming_vehicles - outgoing_vehicles, 20>>
        answering == SelectSeq(nbrs, LAMBDA a : a)
        neighbor_queues == Pad([k \in 1..Len(answering) |-> <<0, 20>>], MAX_NEIGHBORS)
        neighbor_waiting == Pad([k \in 1..Len(answering) |-> <<0, 100>>], MAX_NEIGHBORS)
    IN Pad(queues, MAX_OBS_LANES) \o Pad(waiting_times, MAX_OBS_LANES)
       \o Pad(speeds, MAX_OBS_LANES) \o Pad(occupancy, MAX_OBS_LANES)
       \o emergency_present
       \o << <<phase, NUM_SUMO_PHASES>>, <<timer, MAX_PHASE_DURATION>> >>
       \o << pressure >>
       \o Take(neighbor_queues, MAX_NEIGHBORS) \o Take(neighbor_waiting, MAX_NEIGHBORS)

\* get_state, lines 462-477 and 555: the vector returned for one intersection
get_state_vector(phase, timer, t, nbrs) ==
    IF Fails(t, "getControlledLanes", 0) \/ Take(t.lanes, MAX_OBS_LANES) = <<>>
    THEN [i \in 1..ZERO_STATE_SIZE |-> Zero]
    ELSE node_state(phase, timer, t, nbrs)

\* the lane lists getControlledLanes can answer: any mix of lanes up to
\* MaxLanes, and longer lists of empty lanes up to MaxListedLanes
LaneLists ==
    UNION {[1..k -> LaneKinds] : k \in 0..MaxLanes}
    \cup {[i \in 1..k |-> "empty"] : k \in (MaxLanes + 1)..MaxListedLanes}
OutLists == UNION {[1..k -> {1}] : k \in 0..MaxOutLanes}

\* the sets of at most k calls out of S
RECURSIVE FailureSets(_, _)
FailureSets(S, k) ==
    IF k = 0 THEN {{}}
    ELSE LET smaller == FailureSets(S, k - 1) IN
         smaller \cup {F \cup {q} : F \in smaller, q \in S}

ProbeOf(kind, node, phase, timer, t, nbrs) ==
    [stage |-> "ask", kind |-> kind, node |-> node, phase |-> phase, timer |-> timer,
     t |-> t, nbrs |-> nbrs, obs |-> <<>>, reward |-> 0]

\* get_state is asked for one intersection of the grid
ObsProbe ==
    \E g \in (0..2) \X (0..2) : \E ph \in {0, NUM_PHASES - 1} : \E tm \in {0, MAX_PHASE_DURATION} :
    \E l \in LaneLists : \E f \in {{}, {Q("getControlledLanes", 0)}} :
    \E nb \in [1..Len(neighbors(g[1], g[2])) -> BOOLEAN] :
        probe = ProbeOf("obs", g, ph, tm, Snapshot(l, 0, <<>>, f), nb)

\* calculate_reward is asked for an intersection; at most MaxFailures of the
\* calls it makes raise
RewardProbe ==
    \E l \in UNION {[1..k -> LaneKinds] : k \in 0..MaxLanes} : \E o \in OutLists :
    \E tm \in 0..MAX_PHASE_DURATION : \E a \in 0..1 :
    \E f \in FailureSets(QueriesOf(l, o), MaxFailures) :
        probe = ProbeOf("reward", <<0, 0>>, 0, tm, Snapshot(l, a, o, f), <<>>)

InitTraffic ==
    /\ intersections = <<"n00">>
    /\ InitEnv
    /\ sinceSwitch = SwitchOff
    /\ twin = TwinOff
    /\ codec = NoCodec
    /\ ObsProbe \/ RewardProbe

\* get_state builds the observation of the intersection
BuildObservation ==
    /\ probe.stage = "ask" /\ probe.kind = "obs"
    /\ probe' = [probe EXCEPT !.stage = "done",
                     !.obs = get_state_vector(probe.phase, probe.timer, probe.t, probe.nbrs)]
    /\ UNCHANGED <<envVars, codec>>

\* calculate_reward computes the reward of the intersection
ComputeReward ==
    /\ probe.stage = "ask" /\ probe.kind = "reward"
    /\ probe' = [probe EXCEPT !.stage = "done",
                     !.reward = calculate_reward_on(probe.timer, probe.t)]
    /\ UNCHANGED <<envVars, codec>>

NextTraffic ==
    \/ BuildObservation
    \/ ComputeReward

SpecTraffic == InitTraffic /\ [][NextTraffic]_vars

Next ==
    \/ Reset
    \/ ResetFails
    \/ ApplyAction
    \/ Tick
    \/ TickFails
    \/ ResolvePending
    \/ Finish

Spec == Init /\ [][Next]_vars

\* the Trainer keeps running an episode once reset() has returned: each call
\* of step() runs to its end (the simulator answers every call or raises), and
\* the loop of lines 1436-1468 calls step() again until it breaks
StepOn ==
    \/ ApplyAction
    \/ Tick
    \/ TickFails
    \/ ResolvePending
    \/ Finish

SpecLive == Init /\ [][Next]_vars /\ WF_vars(StepOn)

SpecSwitch == InitSwitch /\ [][Next]_vars

\* the same program, observed together with a freshly constructed environment
\* that is reset whenever the program's environment is and then receives the
\* same actions and the same simulator answers
InitDet ==
    /\ intersections = <<"n00">>
    /\ InitEnv
    /\ sinceSwitch = SwitchOff
    /\ twin = [on |-> TRUE, env |-> NewEnv, out |-> NoOut]
    /\ codec = NoCodec
    /\ probe = NoProbe

SpecDet == InitDet /\ [][Next]_vars

\* the second half of a step() on a two-intersection network: the actions were
\* applied, the simulator ticked and the pending loop ran; the timers, tracked
\* phases and the step counter are those some earlier steps left behind
InitFinish ==
    /\ intersections = <<"n00", "n01">>
    /\ current_step \in 0..(EPISODE_DURATION - 1)
    /\ time_in_phase \in [Nodes -> 0..MAX_PHASE_DURATION]
    /\ \A n \in Nodes : time_in_phase[n] <= current_step
    /\ current_phases \in [Nodes -> 0..(NUM_PHASES - 1)]
    /\ \A n \in Nodes : current_step = 0 => current_phases[n] = 0
    /\ phase_durations = [n \in Nodes |-> MIN_PHASE_DURATION]
    /\ pending_phase_changes = <<>>
    /\ metrics = ZeroMetrics
    /\ loaded = TRUE
    /\ tlsList = Nodes
    /\ simPhase = [n \in Nodes |-> 2 * current_phases[n]]
    /\ simTime = current_step + 1
    /\ pc = "finish"
    /\ idx = 1
    /\ cmds = <<>>
    /\ lastCall = NoCall
    /\ out = NoOut
    /\ twin = TwinOff
    /\ codec = NoCodec
    /\ probe = NoProbe
    /\ demand = 0
    /\ run = RunOff
    /\ sinceSwitch = SwitchOff
    /\ sim_state = SimulationState
    /\ tasks = NoTasks

SpecFinish == InitFinish /\ [][Finish]_vars

\* ---------------------------------------------------------------------
\* The pending loop on a two-intersection network: the environment is in the
\* middle of a step(), after the actions were applied and the simulator
\* ticked. An intersection with a pending record had its yellow commanded by
\* an earlier apply_action (lines 716-732): its tracked phase is the target,
\* its timer was restarted, and the simulator is in the yellow that follows a
\* green other than the target or in the green after that yellow.
\* ---------------------------------------------------------------------
InitResolve ==
    /\ intersections = <<"n00", "n01">>
    /\ current_step \in MIN_PHASE_DURATION..(EPISODE_DURATION - 1)
    /\ \E keys \in {<<>>, <<"n00">>, <<"n01">>, <<"n00", "n01">>, <<"n01", "n00">>} :
       \E ph \in [Nodes -> {0, 2, 4, 6}] : \E du \in [Nodes -> Durations] :
        /\ pending_phase_changes =
               [i \in 1..Len(keys) |-> [node |-> keys[i], phase |-> ph[keys[i]],
                                        duration |-> du[keys[i]]]]
        /\ current_phases = [n \in Nodes |-> IF \E i \in 1..Len(keys) : keys[i] = n
                                             THEN ph[n] \div 2 ELSE 0]
        /\ simPhase \in [Nodes -> 0..(NUM_SUMO_PHASES - 1)]
        /\ \A n \in Nodes :
              IF \E i \in 1..Len(keys) : keys[i] = n
              THEN \E g \in {0, 2, 4, 6} \ {ph[n]} :
                      simPhase[n] \in {g + 1, (g + 2) % NUM_SUMO_PHASES}
              ELSE simPhase[n] = 0
    /\ time_in_phase \in [Nodes -> 0..1]
    /\ \A n \in Nodes : ~HasKey(pending_phase_changes, n) => time_in_phase[n] = 0
    /\ sinceSwitch = SwitchOff
    /\ phase_durations = [n \in Nodes |-> MIN_PHASE_DURATION]
    /\ metrics = ZeroMetrics
    /\ loaded = TRUE
    /\ tlsList = Nodes
    /\ simTime = current_step + 1
    /\ pc = "resolve"
    /\ idx = 1
    /\ cmds = <<>>
    /\ lastCall = NoCall
    /\ out = NoOut
    /\ twin = TwinOff
    /\ codec = NoCodec
    /\ probe = NoProbe
    /\ demand = 0
    /\ run = RunOff
    /\ sim_state = SimulationState
    /\ tasks = NoTasks

SpecResolve == InitResolve /\ [][ResolvePending]_vars

\* ---------------------------------------------------------------------
\* The metrics of an episode with traffic: the environment is in the middle of
\* a step, after the tick and the pending phase changes, in an episode whose
\* route file brings up to MaxDemand vehicles per tick
\* ---------------------------------------------------------------------
MaxDemand == 1
InitMetrics ==
    /\ intersections = <<"n00">>
    /\ demand \in 1..MaxDemand
    /\ current_step \in 0..(EPISODE_DURATION - 1)
    /\ \E t \in 0..MAX_PHASE_DURATION : \E p \in 0..(NUM_PHASES - 1) :
        /\ t <= current_step
        /\ current_step = 0 => p = 0
        /\ time_in_phase = [n \in Nodes |-> IF n \in Configured THEN t ELSE Absent]
        /\ current_phases = [n \in Nodes |-> IF n \in Configured THEN p ELSE Absent]
        /\ phase_durations = [n \in Nodes |-> IF n \in Configured THEN MIN_PHASE_DURATION
                                                ELSE Absent]
    /\ pending_phase_changes = <<>>
    /\ \E w \in 0..(current_step * demand) : \E a \in 0..demand :
        /\ current_step = 0 => a = 0
        /\ metrics = [ZeroMetrics EXCEPT !.total_waiting_time = w, !.total_throughput = a]
    /\ loaded = TRUE
    /\ tlsList = Configured
    /\ simPhase = [n \in Nodes |-> IF n \in Configured THEN 2 * current_phases[n] ELSE 0]
    /\ simTime = current_step + 1
    /\ pc = "finish"
    /\ idx = 1
    /\ cmds = <<>>
    /\ lastCall = NoCall
    /\ out = NoOut
    /\ twin = TwinOff
    /\ codec = NoCodec
    /\ probe = NoProbe
    /\ run = RunOff
    /\ sinceSwitch = SwitchOff
    /\ sim_state = SimulationState
    /\ tasks = NoTasks

SpecMetrics == InitMetrics /\ [][Finish]_vars

\* ---------------------------------------------------------------------
\* main(): a training / evaluation run of the Trainer
\* ---------------------------------------------------------------------
NUM_EPISODES == 1
EVAL_EPISODES == 1

\* Trainer.episode_metrics holds references to the one dict env.metrics, which
\* step() returns (line 819) and reset() clears in place (lines 449-450)
MetricsRef == "env.metrics"
Deref(ref) == metrics

\* faulty variant: the connection is left as it is
close_Nothing(isLoaded, ok, stays) == isLoaded

\* TrafficEnvironment.close: traci.close() is called when a connection is
\* loaded; when it raises (ok is FALSE) the exception is logged and what
\* traci.isLoaded() answers from then on (stays) is up to the library
close(isLoaded, ok, stays) == IF isLoaded /\ ~ok THEN stays ELSE FALSE

\* a call env.close() and what the simulator answers to it
CloseCall ==
    \E ok \in (IF loaded THEN BOOLEAN ELSE {TRUE}) :
    \E stays \in (IF loaded /\ ~ok THEN BOOLEAN ELSE {FALSE}) :
        /\ loaded' = close(loaded, ok, stays)
        /\ lastCall' = [op |-> "close", wasLoaded |-> loaded, ok |-> ok, after |-> lastCall.op]
        /\ out' = [kind |-> "closed"]

\* what the Trainer's own statements leave alone
runFrame == <<intersections, time_in_phase, current_phases, phase_durations,
              pending_phase_changes, current_step, metrics, tlsList, simPhase, simTime,
              twin, codec, probe, demand, sinceSwitch, server>>

RunAt(stage, left) ==
    [stage |-> stage, left |-> left, in_episode |-> FALSE, episode_metrics |-> <<>>]

\* the state when main() enters its try block: the Trainer is constructed, the
\* coordinator has started the simulation once, read a state and closed it
InitRun ==
    /\ intersections = <<"n00">>
    /\ \E known \in SUBSET Configured :
        LET e == start_simulation(NewEnv, known) IN
        /\ time_in_phase = e.time_in_phase
        /\ current_phases = e.current_phases
        /\ phase_durations = e.phase_durations
        /\ pending_phase_changes = e.pending_phase_changes
        /\ current_step = e.current_step
        /\ metrics = e.metrics
        /\ tlsList = known
    /\ loaded \in BOOLEAN
    /\ simPhase = [n \in Nodes |-> 0]
    /\ simTime = 0
    /\ pc = "ended"
    /\ idx = 1
    /\ cmds = <<>>
    /\ lastCall = NoCall
    /\ out = NoOut
    /\ twin = TwinOff
    /\ codec = NoCodec
    /\ probe = NoProbe
    /\ demand = 0
    /\ run = RunAt("main", 0)
    /\ sinceSwitch = SwitchOff
    /\ sim_state = SimulationState
    /\ tasks = NoTasks

\* main, lines 1677-1720: the mode decides whether training or evaluation
\* starts; a missing checkpoint returns at once and load_all may raise
MainStart ==
    /\ run.stage = "main"
    /\ \/ run' = RunAt("train", NUM_EPISODES)
       \/ run' = RunAt("evaluate", EVAL_EPISODES)
       \/ run' = RunAt("finally", 0)
    /\ UNCHANGED <<runFrame, loaded, pc, idx, cmds, lastCall, out>>

\* Trainer.train, lines 1467-1504, and Trainer.evaluate, lines 1540-1543: the
\* episode is over. In train an exception (reset or step raised, or the empty
\* rewards of a failed tick met rewards[node]) is logged and the loop goes on,
\* otherwise the metrics step() returned are appended to episode_metrics; in
\* evaluate an exception leaves the loop for main's handlers.
EpisodeEnd ==
    /\ run.stage \in {"train", "evaluate"}
    /\ run.in_episode
    /\ pc = "ended"
    /\ LET raised == out.kind = "raise"
           no_rewards == out.kind = "step" /\ DOMAIN out.rewards = {}
       IN run' = IF run.stage = "train"
                 THEN IF raised \/ no_rewards THEN [run EXCEPT !.in_episode = FALSE]
                      ELSE [run EXCEPT !.in_episode = FALSE,
                                       !.episode_metrics = Append(@, MetricsRef)]
                 ELSE IF raised THEN [run EXCEPT !.in_episode = FALSE, !.stage = "finally"]
                      ELSE [run EXCEPT !.in_episode = FALSE]
    /\ lastCall' = [op |-> "episode_end"]
    /\ out' = NoOut
    /\ UNCHANGED <<runFrame, loaded, pc, idx, cmds>>

\* Trainer.train, lines 1506-1508: the loop is over and the environment is
\* closed; main (lines 1685-1688) goes on to evaluate in 'train' mode
TrainEnd ==
    /\ run.stage = "train" /\ ~run.in_episode /\ run.left = 0
    /\ CloseCall
    /\ \/ run' = [run EXCEPT !.stage = "evaluate", !.left = EVAL_EPISODES]
       \/ run' = [run EXCEPT !.stage = "finally"]
    /\ UNCHANGED <<runFrame, pc, idx, cmds>>

\* Trainer.evaluate, line 1552: the loop is over and the environment is closed
EvalEnd ==
    /\ run.stage = "evaluate" /\ ~run.in_episode /\ run.left = 0
    /\ CloseCall
    /\ run' = [run EXCEPT !.stage = "finally"]
    /\ UNCHANGED <<runFrame, pc, idx, cmds>>

\* faulty variant: the interrupt ends the run without closing the environment
Interrupted_NoClose ==
    /\ run.stage \in {"train", "evaluate"}
    /\ lastCall' = [op |-> "interrupt"]
    /\ pc' = "ended"
    /\ idx' = 1
    /\ cmds' = <<>>
    /\ run' = [run EXCEPT !.stage = "exited", !.in_episode = FALSE]
    /\ UNCHANGED <<runFrame, loaded, out>>

\* main, lines 1723-1728: KeyboardInterrupt, raised anywhere in train or
\* evaluate, passes their handlers (it is no Exception), is logged by main and
\* the finally clause closes the environment
Interrupted ==
    /\ run.stage \in {"train", "evaluate"}
    /\ CloseCall
    /\ pc' = "ended"
    /\ idx' = 1
    /\ cmds' = <<>>
    /\ run' = [run EXCEPT !.stage = "exited", !.in_episode = FALSE]
    /\ UNCHANGED runFrame

\* main, lines 1725-1728: train / evaluate returned or raised an Exception,
\* which is logged; the finally clause closes the environment
Finally ==
    /\ run.stage = "finally"
    /\ CloseCall
    /\ run' = [run EXCEPT !.stage = "exited"]
    /\ UNCHANGED <<runFrame, pc, idx, cmds>>

NextRun ==
    \/ MainStart
    \/ Reset
    \/ ResetFails
    \/ ApplyAction
    \/ Tick
    \/ TickFails
    \/ ResolvePending
    \/ Finish
    \/ EpisodeEnd
    \/ TrainEnd
    \/ EvalEnd
    \/ Interrupted
    \/ Finally

SpecRun == InitRun /\ [][NextRun]_vars

\* ---------------------------------------------------------------------
\* The API server (sumo_api_server.py) and its controller (rl_controller.py).
\* The server drives one simulation through POST /control; the network has
\* the traffic light "n00"; one simulated second passes per tick.
\* ---------------------------------------------------------------------
\* the most ticks a simulation is stepped through
MaxServerSteps == 11

\* rl_controller.py, actuated_action: the thresholds, in seconds
EMERGENCY_MIN_GREEN == 5
ACTUATED_MIN_GREEN == 10
ACTUATED_MAX_GREEN == 60
ACTUATED_GAP_GREEN == 15
QUEUE_MARGIN == 3

\* what get_observation can report for the four approaches: the queue lengths
\* (all 0 when the lane queries raise) and whether an emergency vehicle is seen
QueueLengths ==
    {q \in [1..4 -> {0, QUEUE_MARGIN + 1}] : Cardinality({j \in 1..4 : q[j] # 0}) <= 1}

\* np.argmax: the first index that holds the maximum
ArgMax(q) == CHOOSE j \in 1..4 : (\A k \in 1..4 : q[k] <= q[j]) /\ (\A k \in 1..(j - 1) : q[k] < q[j])

\* faulty variant: the emergency priority switches at any time
actuated_action_NoEmergencyMin(current_phase, since, q, has_emergency) ==
    LET cur == current_phase \div 2 + 1
        arg == ArgMax(q)
    IN
    IF current_phase = Fail \/ current_phase % 2 = 1 THEN 0
    ELSE IF has_emergency /\ arg # cur THEN arg
    ELSE IF since < ACTUATED_MIN_GREEN THEN 0
    ELSE IF since >= ACTUATED_MAX_GREEN /\ arg # cur THEN arg
    ELSE IF q[arg] > q[cur] + QUEUE_MARGIN /\ since >= ACTUATED_GAP_GREEN THEN arg
    ELSE 0

\* RLController.actuated_action, lines 430-482: 0 = keep, 1..4 = switch to the
\* green phase of that approach. current_phase is what getPhase reports (Fail
\* when a query raises: the exception is caught and 0 returned), since is
\* current_time - last_switch_time.get(tl_id, 0).
actuated_action(current_phase, since, q, has_emergency) ==
    LET cur == current_phase \div 2 + 1
        arg == ArgMax(q)
    IN
    IF current_phase = Fail \/ current_phase % 2 = 1 THEN 0
    ELSE IF has_emergency /\ arg # cur /\ since >= EMERGENCY_MIN_GREEN THEN arg
    ELSE IF since < ACTUATED_MIN_GREEN THEN 0
    ELSE IF since >= ACTUATED_MAX_GREEN /\ arg # cur THEN arg
    ELSE IF q[arg] > q[cur] + QUEUE_MARGIN /\ since >= ACTUATED_GAP_GREEN THEN arg
    ELSE 0

\* RLController.__init__ and initialize_traffic_lights, lines 97-133 and
\* 218-230: the controller that 'start' creates at simulation time now
NewController(algorithm, tls, now) ==
    [algorithm |-> algorithm,
     traffic_lights |-> tls,
     last_switch_time |-> [n \in Nodes |-> IF n \in tls THEN now ELSE Absent]]

\* RLController.apply_action, lines 484-516: the green phase of the action is
\* commanded unless it is the reported phase, and the switch time is noted. A
\* call that raises (accepted = FALSE) is caught and leaves the rest undone.
RL_apply_action(c, tl_id, action, current_phase, accepted, now) ==
    LET target_green_phase == (action - 1) * 2 IN
    IF action = 0 \/ ~accepted \/ current_phase = target_green_phase
    THEN [ctl |-> c, cmds |-> <<>>]
    ELSE [ctl |-> [c EXCEPT !.last_switch_time[tl_id] = now],
          cmds |-> <<SetPhaseCmd(tl_id, target_green_phase)>>]

\* RLController.step, lines 518-527, for the traffic light of the network:
\* select_action (lines 292-310) of a controller created with the 'actuated'
\* algorithm, the one the server is run with here, then apply_action. o is what
\* the simulator answers.
RLController_step(c, tl_id, o, now) ==
    LET last == c.last_switch_time[tl_id]
        since == now - (IF last = Absent THEN 0 ELSE last)
        action == actuated_action(o.phase, since, o.queues, o.emergency)
        res == RL_apply_action(c, tl_id, action, o.phase, o.accepted, now)
    IN [ctl |-> res.ctl, cmds |-> res.cmds, action |-> action, since |-> since]

\* the variables the API server leaves alone
serverFrame == <<intersections, time_in_phase, current_phases, phase_durations,
                 pending_phase_changes, current_step, metrics, pc, idx, twin, codec, probe,
                 demand, sinceSwitch, run>>

Http(status, body) == [kind |-> "http", status |-> status, body |-> body]

\* what the simulator answers to the controller's calls for a traffic light:
\* the reported phase (Fail: a query of select_action raises), the observation,
\* and whether the calls of apply_action are accepted
ControllerAnswers ==
    [phase : {simPhase["n00"], Fail}, queues : QueueLengths, emergency : BOOLEAN,
     accepted : BOOLEAN]

InitServer ==
    /\ intersections = <<"n00">>
    /\ InitEnv
    /\ sinceSwitch = SwitchOff
    /\ twin = TwinOff
    /\ codec = NoCodec
    /\ probe = NoProbe

\* control_simulation, 'start', lines 406-444. traci.start raises when a
\* connection is still registered or when the simulator does not come up; the
\* exception leaves sim_state as it was (HTTP 500).
Start ==
    /\ \E started \in BOOLEAN : \E enable_rl \in BOOLEAN : \E rl_ok \in BOOLEAN :
        IF sim_state.is_running
        THEN /\ out' = Http(400, "already running")
             /\ UNCHANGED <<sim_state, loaded, tlsList, simPhase, simTime>>
        ELSE IF loaded \/ ~started
        THEN /\ out' = Http(500, "error")
             /\ UNCHANGED <<sim_state, loaded, tlsList, simPhase, simTime>>
        ELSE /\ loaded' = TRUE
             /\ tlsList' = {"n00"}
             /\ simPhase' = [n \in Nodes |-> 0]
             /\ simTime' = 0
             /\ sim_state' = [sim_state EXCEPT
                    !.is_running = TRUE, !.is_paused = FALSE, !.current_step = 0,
                    !.rl_controller = IF enable_rl /\ rl_ok
                                      THEN NewController("actuated", {"n00"}, 0)
                                      ELSE NoController]
             /\ out' = Http(200, "started")
    /\ cmds' = <<>>
    /\ lastCall' = [op |-> "start"]
    /\ UNCHANGED <<tasks, serverFrame>>

\* faulty variant: a simulation that is not running can be paused
Pause_Unchecked ==
    /\ sim_state' = [sim_state EXCEPT !.is_paused = TRUE]
    /\ out' = Http(200, "paused")
    /\ cmds' = <<>>
    /\ lastCall' = [op |-> "pause"]
    /\ UNCHANGED <<loaded, tlsList, simPhase, simTime, tasks, serverFrame>>

\* control_simulation, 'pause', lines 446-450
Pause ==
    /\ IF ~sim_state.is_running
       THEN out' = Http(400, "not running") /\ UNCHANGED sim_state
       ELSE out' = Http(200, "paused") /\ sim_state' = [sim_state EXCEPT !.is_paused = TRUE]
    /\ cmds' = <<>>
    /\ lastCall' = [op |-> "pause"]
    /\ UNCHANGED <<loaded, tlsList, simPhase, simTime, tasks, serverFrame>>

\* control_simulation, 'resume', lines 452-456
Resume ==
    /\ IF ~sim_state.is_running
       THEN out' = Http(400, "not running") /\ UNCHANGED sim_state
       ELSE out' = Http(200, "resumed") /\ sim_state' = [sim_state EXCEPT !.is_paused = FALSE]
    /\ cmds' = <<>>
    /\ lastCall' = [op |-> "resume"]
    /\ UNCHANGED <<loaded, tlsList, simPhase, simTime, tasks, serverFrame>>

\* control_simulation, 'stop', lines 458-474: the connection is closed when one
\* is loaded (a close that raises is logged; the connection may then stay
\* registered), the controller is dropped and the flags are cleared
Stop ==
    /\ \E ok \in (IF loaded THEN BOOLEAN ELSE {TRUE}) :
       \E stays \in (IF loaded /\ ~ok THEN BOOLEAN ELSE {FALSE}) :
        /\ loaded' = (loaded /\ ~ok /\ stays)
        /\ lastCall' = [op |-> "stop", ok |-> ok]
    /\ sim_state' = [sim_state EXCEPT !.is_running = FALSE, !.is_paused = FALSE,
                                      !.current_step = 0, !.rl_controller = NoController]
    /\ out' = Http(200, "stopped")
    /\ cmds' = <<>>
    /\ UNCHANGED <<tlsList, simPhase, simTime, tasks, serverFrame>>

ControlCmd(action) == [cmd |-> "rl_controller.step", node |-> "n00", arg |-> action]
TickCmd == [cmd |-> "simulationStep", node |-> "n00", arg |-> None]

\* faulty variant: the simulator is ticked before the controller acts
StepOrder_TickFirst(control, tick) == tick \o control

\* control_simulation, 'step', lines 489-497: the controller acts, then the
\* simulator is ticked
StepOrder(control, tick) == control \o tick

\* control_simulation, 'step', lines 477-514. tick is what simulationStep does
\* ("ok", "fatal": FatalTraCIError, "error": another exception, HTTP 500), left
\* what getMinExpectedNumber answers. The response of a step that went through
\* is sent after broadcast_state, which has to be awaited when clients are
\* connected.
Step ==
    /\ tasks.broadcast.pc = "idle"
    /\ (sim_state.is_running /\ ~sim_state.is_paused /\ loaded)
          => sim_state.current_step < MaxServerSteps
    /\ IF ~sim_state.is_running \/ sim_state.is_paused
       THEN /\ out' = Http(400, "not running or paused")
            /\ cmds' = <<>>
            /\ lastCall' = [op |-> "step", tick |-> "none"]
            /\ UNCHANGED <<sim_state, loaded, simPhase, simTime, tasks>>
       ELSE IF ~loaded
       THEN /\ sim_state' = [sim_state EXCEPT !.is_running = FALSE, !.is_paused = FALSE]
            /\ out' = Http(200, "connection_lost")
            /\ cmds' = <<>>
            /\ lastCall' = [op |-> "step", tick |-> "none"]
            /\ UNCHANGED <<loaded, simPhase, simTime, tasks>>
       ELSE
        \E o \in (IF sim_state.rl_controller # NoController THEN ControllerAnswers
                   ELSE {CHOOSE a \in ControllerAnswers : a.phase # Fail}) :
        \E tick \in {"ok", "fatal", "error"} :
        \E left \in (IF tick = "ok" THEN {"some", "none", "fatal", "error"} ELSE {"some"}) :
        \E stays \in (IF tick = "fatal" \/ left = "fatal" THEN BOOLEAN ELSE {FALSE}) :
            LET has == sim_state.rl_controller # NoController
                ctl == IF has THEN RLController_step(sim_state.rl_controller, "n00", o, simTime)
                       ELSE [ctl |-> NoController, cmds |-> <<>>, action |-> None, since |-> None]
                control == IF has THEN <<ControlCmd(ctl.action)>> \o ctl.cmds ELSE <<>>
                obeyed == ObeyCmds(simPhase, ctl.cmds)
                ticked == tick = "ok"
                fatal == tick = "fatal" \/ (ticked /\ left = "fatal")
                error == tick = "error" \/ (ticked /\ left = "error")
                over == ticked /\ left = "none"
                waits == ticked /\ left = "some" /\ sim_state.websocket_clients # <<>>
            IN
            /\ IF ticked THEN \E q \in NextPhases(obeyed) : simPhase' = q
               ELSE simPhase' = obeyed
            /\ simTime' = IF ticked THEN simTime + 1 ELSE simTime
            /\ cmds' = StepOrder(control, IF ticked THEN <<TickCmd>> ELSE <<>>)
            /\ sim_state' = [sim_state EXCEPT
                   !.rl_controller = ctl.ctl,
                   !.current_step = IF ticked THEN @ + 1 ELSE @,
                   !.is_running = IF fatal \/ over THEN FALSE ELSE @,
                   !.is_paused = IF fatal THEN FALSE ELSE @]
            /\ loaded' = IF fatal THEN stays ELSE TRUE
            /\ tasks' = IF waits
                        THEN [tasks EXCEPT !.broadcast =
                                 [pc |-> "send", i |-> 1, disconnected |-> <<>>]]
                        ELSE tasks
            /\ out' = IF fatal THEN Http(200, "error")
                      ELSE IF error THEN Http(500, "error")
                      ELSE IF over THEN Http(200, "completed")
                      ELSE IF waits THEN NoOut
                      ELSE Http(200, "stepped")
            /\ lastCall' = [op |-> "step", tick |-> tick, action |-> ctl.action,
                            since |-> ctl.since, emergency |-> o.emergency]
    /\ UNCHANGED <<tlsList, serverFrame>>

\* POST /control on a server without WebSocket clients
NextServer ==
    \/ Start
    \/ Pause
    \/ Resume
    \/ Stop
    \/ Step

SpecServer == InitServer /\ [][NextServer]_vars

\* ---------------------------------------------------------------------
\* The WebSocket clients of the API server. Every coroutine runs until it
\* awaits: a broadcast yields at each send_text, a socket handler waits in
\* receive_text. One step command is served at a time.
\* ---------------------------------------------------------------------
\* a simulation that was started without a controller and stepped, two ticks
\* before the model's bound; no client is connected yet
InitSockets ==
    /\ intersections = <<"n00">>
    /\ time_in_phase = NewEnv.time_in_phase
    /\ current_phases = NewEnv.current_phases
    /\ phase_durations = NewEnv.phase_durations
    /\ pending_phase_changes = NewEnv.pending_phase_changes
    /\ current_step = NewEnv.current_step
    /\ metrics = NewEnv.metrics
    /\ loaded = TRUE
    /\ tlsList = {"n00"}
    /\ simPhase = [n \in Nodes |-> 0]
    /\ simTime = MaxServerSteps - 2
    /\ pc = "ended"
    /\ idx = 1
    /\ cmds = <<>>
    /\ lastCall = NoCall
    /\ out = NoOut
    /\ twin = TwinOff
    /\ codec = NoCodec
    /\ probe = NoProbe
    /\ demand = 0
    /\ run = RunOff
    /\ sinceSwitch = SwitchOff
    /\ sim_state = [SimulationState EXCEPT !.is_running = TRUE,
                                            !.current_step = MaxServerSteps - 2]
    /\ tasks = NoTasks

\* websocket_endpoint, lines 597-601: a client connects; the handler accepts,
\* appends the socket to the client list and waits for a message
Connect ==
    /\ \E c \in Clients :
        /\ tasks.handler[c] = "none"
        /\ sim_state' = [sim_state EXCEPT !.websocket_clients = Append(@, c)]
        /\ tasks' = [tasks EXCEPT !.handler[c] = "receiving", !.open[c] = TRUE]
        /\ lastCall' = [op |-> "connect", client |-> c]
    /\ cmds' = <<>>
    /\ UNCHANGED <<loaded, tlsList, simPhase, simTime, out, serverFrame>>

\* the peer of a connected client goes away
Drop ==
    /\ \E c \in Clients :
        /\ tasks.open[c]
        /\ tasks' = [tasks EXCEPT !.open[c] = FALSE]
        /\ lastCall' = [op |-> "drop", client |-> c]
    /\ cmds' = <<>>
    /\ UNCHANGED <<sim_state, loaded, tlsList, simPhase, simTime, out, serverFrame>>

\* websocket_endpoint, lines 603-611: the handler of a client whose peer went
\* away. receive_text raises WebSocketDisconnect and the handler removes the
\* socket from the list (list.remove raises ValueError when it is not there);
\* or a message had arrived and the echo raises another exception, which ends
\* the handler with the socket still listed.
Disconnect ==
    /\ \E c \in Clients : \E echo \in BOOLEAN :
        /\ tasks.handler[c] = "receiving"
        /\ ~tasks.open[c]
        /\ IF echo
           THEN /\ tasks' = [tasks EXCEPT !.handler[c] = "failed"]
                /\ UNCHANGED sim_state
           ELSE IF \E j \in DOMAIN sim_state.websocket_clients :
                       sim_state.websocket_clients[j] = c
           THEN /\ sim_state' = [sim_state EXCEPT
                       !.websocket_clients = SelectSeq(@, LAMBDA y : y # c)]
                /\ tasks' = [tasks EXCEPT !.handler[c] = "done"]
           ELSE /\ tasks' = [tasks EXCEPT !.handler[c] = "ValueError"]
                /\ UNCHANGED sim_state
        /\ lastCall' = [op |-> "disconnect", client |-> c]
    /\ cmds' = <<>>
    /\ UNCHANGED <<loaded, tlsList, simPhase, simTime, out, serverFrame>>

\* broadcast_state, lines 297-303: the next send of the loop over the client
\* list; a send to a peer that went away may raise and the client is collected
BroadcastSend ==
    /\ tasks.broadcast.pc = "send"
    /\ tasks.broadcast.i <= Len(sim_state.websocket_clients)
    /\ LET client == sim_state.websocket_clients[tasks.broadcast.i] IN
       \E failed \in (IF tasks.open[client] THEN {FALSE} ELSE BOOLEAN) :
        /\ tasks' = [tasks EXCEPT !.broadcast.i = @ + 1,
                        !.broadcast.disconnected =
                            IF failed THEN Append(@, client) ELSE @]
        /\ lastCall' = [op |-> "send_text", client |-> client, failed |-> failed]
    /\ cmds' = <<>>
    /\ UNCHANGED <<sim_state, loaded, tlsList, simPhase, simTime, out, serverFrame>>

\* broadcast_state, lines 305-307, and control_simulation, line 514: the loop is
\* over, the collected clients that are still listed are removed and the step
\* command answers
BroadcastFinish ==
    /\ tasks.broadcast.pc = "send"
    /\ tasks.broadcast.i > Len(sim_state.websocket_clients)
    /\ LET disconnected == tasks.broadcast.disconnected IN
       sim_state' = [sim_state EXCEPT !.websocket_clients =
           SelectSeq(@, LAMBDA y : \A j \in DOMAIN disconnected : disconnected[j] # y)]
    /\ tasks' = [tasks EXCEPT !.broadcast = [pc |-> "idle"]]
    /\ lastCall' = [op |-> "broadcast", removed |-> tasks.broadcast.disconnected]
    /\ out' = Http(200, "stepped")
    /\ cmds' = <<>>
    /\ UNCHANGED <<loaded, tlsList, simPhase, simTime, serverFrame>>

NextSockets ==
    \/ Connect
    \/ Drop
    \/ Disconnect
    \/ Step
    \/ BroadcastSend
    \/ BroadcastFinish

SpecSockets == InitSockets /\ [][NextSockets]_vars

\* ---------------------------------------------------------------------
\* Properties
\* ---------------------------------------------------------------------
\* the step being taken is a call apply_action(node, action) of kind ty whose
\* phase query succeeded and found a timer for the node
IsApply(ty) ==
    /\ pc = "apply"
    /\ lastCall'.op = "apply_action"
    /\ lastCall'.action.type = ty
    /\ lastCall'.r.phase # Fail
    /\ time_in_phase[lastCall'.node] # Absent

\* C1: for every intersection the tracked time-in-phase timer is always within
\* [0, MAX_PHASE_DURATION], whatever actions are applied and whatever phases
\* the simulator reports (a yellow phase it entered on its own included).
C1_TimerWithinMax ==
    \A n \in Configured :
        time_in_phase[n] # Absent => time_in_phase[n] \in 0..MAX_PHASE_DURATION

\* C2: a switch action applied (its phase query answered) while the timer is
\* below MIN_PHASE_DURATION is not honored: no command reaches the simulator,
\* the pending transitions and the tracked phase are unchanged, and the only
\* effect is that the intersection's timer increases by exactly 1.
C2_SwitchBelowMinRejected ==
    [][(IsApply("switch") /\ time_in_phase[lastCall'.node] < MIN_PHASE_DURATION)
        => /\ cmds' = <<>>
           /\ simPhase' = simPhase
           /\ pending_phase_changes' = pending_phase_changes
           /\ current_phases' = current_phases
           /\ phase_durations' = phase_durations
           /\ time_in_phase' = [time_in_phase EXCEPT ![lastCall'.node] = @ + 1]]_vars

\* a switch was just rejected at timer 0: the timer reads 1 after a switch call
C2_Witness ==
    /\ lastCall.op = "apply_action"
    /\ lastCall.action.type = "switch"
    /\ lastCall.r.phase # Fail
    /\ time_in_phase[lastCall.node] = 1
    /\ cmds = <<>>

\* C3: a switch to agent phase p applied while the simulator reports the green
\* phase c (even), 2*p # c, with timer >= MIN_PHASE_DURATION and the simulator
\* accepting the commands, puts the simulator into yellow phase c+1 with the
\* yellow duration, records the pending transition (2*p, requested duration)
\* for the intersection and resets its timer to 0.
C3_SwitchHonored ==
    [][(/\ IsApply("switch")
        /\ time_in_phase[lastCall'.node] >= MIN_PHASE_DURATION
        /\ lastCall'.r.phase % 2 = 0
        /\ lastCall'.action.phase_idx * 2 # lastCall'.r.phase
        /\ lastCall'.r.setPhaseOk /\ lastCall'.r.setDurOk)
        => LET n == lastCall'.node
               c == lastCall'.r.phase
           IN /\ cmds' = <<SetPhaseCmd(n, c + 1), SetDurationCmd(n, YELLOW_PHASE_DURATION)>>
              /\ simPhase'[n] = c + 1
              /\ HasKey(pending_phase_changes', n)
              /\ DictGet(pending_phase_changes', n) =
                     [node |-> n, phase |-> 2 * lastCall'.action.phase_idx,
                      duration |-> lastCall'.action.duration]
              /\ time_in_phase'[n] = 0]_vars

\* a switch from green phase 0 to agent phase 2 was just honored: yellow 1 is
\* commanded and the target 4 is pending
C3_Witness ==
    /\ lastCall.op = "apply_action"
    /\ lastCall.action.type = "switch"
    /\ lastCall.action.phase_idx = 2
    /\ lastCall.r.phase = 0
    /\ cmds = <<SetPhaseCmd(lastCall.node, 1), SetDurationCmd(lastCall.node, YELLOW_PHASE_DURATION)>>
    /\ HasKey(pending_phase_changes, lastCall.node)
    /\ DictGet(pending_phase_changes, lastCall.node).phase = 4
    /\ time_in_phase[lastCall.node] = 0

\* the commands of cs addressed to node n
CmdsFor(cs, n) == SelectSeq(cs, LAMBDA c : c.node = n)

\* the step being taken is the pending loop of step(), and no simulator call
\* of the loop raises
IsResolveOk ==
    /\ pc = "resolve"
    /\ lastCall'.op = "resolve"
    /\ \A n \in Nodes : HasKey(pending_phase_changes, n) =>
          /\ lastCall'.r[n].phase # Fail
          /\ lastCall'.r[n].setPhaseOk
          /\ lastCall'.r[n].setDurOk

\* C4: once a pending transition is recorded, the pending loop of a step (its
\* simulator calls succeeding) commands the recorded target phase with the
\* recorded duration as soon as the phase reported after the tick is even, and
\* sends the intersection no command while the reported phase is odd; the
\* record stays in place until then, so the first even report issues the command.
C4_PendingAppliedWhenGreen ==
    [][IsResolveOk =>
        \A n \in Nodes : HasKey(pending_phase_changes, n) =>
            LET rec == DictGet(pending_phase_changes, n) IN
            IF lastCall'.r[n].phase % 2 = 0
            THEN /\ CmdsFor(cmds', n) = <<SetPhaseCmd(n, rec.phase), SetDurationCmd(n, rec.duration)>>
                 /\ simPhase'[n] = rec.phase
            ELSE /\ CmdsFor(cmds', n) = <<>>
                 /\ HasKey(pending_phase_changes', n)
                 /\ DictGet(pending_phase_changes', n) = rec]_vars

\* the pending loop just applied a target phase that differs from the phase the
\* simulator had reached after the yellow
C4_Witness ==
    /\ lastCall.op = "resolve"
    /\ \E n \in Nodes :
        /\ HasKey(lastCall.before, n)
        /\ lastCall.r[n].phase % 2 = 0
        /\ lastCall.r[n].phase # DictGet(lastCall.before, n).phase
        /\ cmds = <<SetPhaseCmd(n, DictGet(lastCall.before, n).phase),
                    SetDurationCmd(n, DictGet(lastCall.before, n).duration)>>
        /\ simPhase[n] = DictGet(lastCall.before, n).phase

NoDuplicateKeys(d) == \A i, j \in 1..Len(d) : d[i].node = d[j].node => i = j

\* C5: every intersection has at most one pending transition record; a record
\* is removed only by the pending loop of a step in which the reported phase
\* of its intersection is even (never while it is odd), and it is removed
\* when the loop (its simulator calls succeeding) sees an even phase.
C5_OnePendingClearedOnGreen ==
    [][/\ NoDuplicateKeys(pending_phase_changes')
       /\ \A n \in Nodes :
            (HasKey(pending_phase_changes, n) /\ ~HasKey(pending_phase_changes', n))
            => /\ pc = "resolve"
               /\ lastCall'.op = "resolve"
               /\ lastCall'.r[n].phase # Fail
               /\ lastCall'.r[n].phase % 2 = 0
       /\ IsResolveOk =>
            \A n \in Nodes :
                (HasKey(pending_phase_changes, n) /\ lastCall'.r[n].phase % 2 = 0)
                => ~HasKey(pending_phase_changes', n)]_vars

\* the pending loop just removed a record on an even report
C5_Witness ==
    /\ lastCall.op = "resolve"
    /\ \E n \in Nodes :
        /\ HasKey(lastCall.before, n)
        /\ lastCall.r[n].phase % 2 = 0
        /\ ~HasKey(pending_phase_changes, n)

\* C6: after reset() no pending transition of the previous episode remains.
C6_NoPendingAfterReset ==
    (lastCall.op = "reset" /\ lastCall.ok) => pending_phase_changes = <<>>

C9_RoundTripPPO_A3C ==
    (codec.stage = "stored" /\ codec.agent \in {"PPO", "A3C"}) => codec.stored = codec.action_idx

\* a switch with a duration above the minimum went through the PPO round trip
C9_Witness ==
    /\ codec.stage = "stored" /\ codec.agent = "PPO"
    /\ codec.keep
    /\ codec.action.type = "switch"
    /\ codec.action.duration > codec.minD
    /\ codec.stored = codec.action_idx

\* C10: for the DQN path, for every valid index i and both settings of
\* ALLOW_PHASE_KEEP, the index train_all encodes from the action that
\* DQNAgent.select_action decoded from i is exactly i.
C10_RoundTripDQN ==
    (codec.stage = "stored" /\ codec.agent = "DQN" /\ codec.action_idx # None)
    => codec.stored = codec.action_idx

C11_CongestionEndsIffRatio ==
    (lastCall.op = "finish" /\ out.kind = "step")
    => (out.congested <=>
            LET occ == lastCall.occ
                n == Cardinality({i \in DOMAIN occ : occ[i] # Fail /\ occ[i] > OCCUPANCY_THRESHOLD})
            IN Len(occ) > 0 /\ 100 * n > CONGESTION_THRESHOLD * Len(occ))

\* C12: when a step() ends the episode because of congestion (it returns
\* terminal although the time budget is not reached), the reward returned for
\* every intersection is the reward engine's value for it minus exactly the
\* congestion penalty; after every other step() the returned reward of every
\* intersection is the reward engine's value, unreduced.
C12_PenaltyOnlyOnCongestion ==
    (lastCall.op = "finish" /\ out.kind = "step")
    => LET truncated == out.done /\ current_step < EPISODE_DURATION IN
       \A n \in Configured :
          out.rewards[n] = calculate_reward(Env, n, lastCall.rewLanes, lastCall.arrived)
                           - (IF truncated THEN CONGESTION_PENALTY ELSE 0)

\* a congestion-truncated tick on which the two intersections earned different
\* rewards, and both were charged
C12_Witness ==
    /\ lastCall.op = "finish" /\ out.kind = "step"
    /\ out.done /\ current_step < EPISODE_DURATION
    /\ calculate_reward(Env, "n00", lastCall.rewLanes, lastCall.arrived) # calculate_reward(Env, "n01", lastCall.rewLanes, lastCall.arrived)
    /\ \A n \in Configured :
          out.rewards[n] = calculate_reward(Env, n, lastCall.rewLanes, lastCall.arrived) - CONGESTION_PENALTY

\* C13: when simulationStep raises, step() returns terminal = true with an
\* observation for every intersection and an empty reward set (the lane reads
\* of get_state not raising in turn); the step counter, the pending
\* transitions, the timers and the metrics are as before the tick, and no
\* command is sent.
C13_TickFailureEndsEpisode ==
    [][(pc = "tick" /\ lastCall'.op = "simulationStep" /\ ~lastCall'.ok)
        => /\ current_step' = current_step
           /\ pending_phase_changes' = pending_phase_changes
           /\ time_in_phase' = time_in_phase
           /\ metrics' = metrics
           /\ cmds' = <<>>
           /\ simTime' = simTime
           /\ lastCall'.bad = {} =>
                /\ out'.kind = "step"
                /\ out'.done
                /\ out'.rewards = <<>>
                /\ DOMAIN out'.obs = Configured]_vars

\* a tick failed while a transition was pending: the step returned terminal
\* with an assembled observation and the transition is still recorded
C13_Witness ==
    /\ lastCall.op = "simulationStep" /\ ~lastCall.ok
    /\ out.kind = "step" /\ out.done /\ out.rewards = <<>>
    /\ \E n \in Configured : ~out.obs[n].zero
    /\ pending_phase_changes # <<>>
    /\ current_step > 0

\* C14: a failed simulator read while the observations are rebuilt yields a
\* default feature value and step() still returns: a step() whose tick
\* succeeded never ends by raising, whatever reads fail afterwards.
C14_StepNeverRaises ==
    lastCall.op = "finish" => out.kind = "step"

\* the call apply_action(node, action) being made has a simulator call that
\* raises: getPhase, or a command of the branch that the action takes
ApplyCallFails ==
    /\ pc = "apply"
    /\ lastCall'.op = "apply_action"
    /\ lastCall'.action.type \in {"keep", "switch"}
    /\ LET n == lastCall'.node
           a == lastCall'.action
           r == lastCall'.r
       IN \/ r.phase = Fail
          \/ /\ a.type = "switch"
             /\ time_in_phase[n] # Absent
             /\ time_in_phase[n] >= MIN_PHASE_DURATION
             /\ r.phase % 2 = 0
             /\ IF a.phase_idx * 2 # r.phase THEN ~r.setPhaseOk \/ ~r.setDurOk ELSE ~r.setDurOk

\* C15: when getPhase, setPhase or setPhaseDuration raises while a keep or a
\* switch action is applied to an intersection, the intersection's timer is
\* the same after apply_action as before it.
C15_FailedApplyKeepsTimer ==
    [][ApplyCallFails => time_in_phase'[lastCall'.node] = time_in_phase[lastCall'.node]]_vars

\* a switch whose setPhase was accepted and whose setPhaseDuration raised: the
\* yellow phase is commanded and the timer still shows the elapsed green time
C15_Witness ==
    /\ lastCall.op = "apply_action"
    /\ lastCall.action.type = "switch"
    /\ lastCall.r.phase # Fail
    /\ lastCall.r.setPhaseOk /\ ~lastCall.r.setDurOk
    /\ cmds = <<SetPhaseCmd(lastCall.node, lastCall.r.phase + 1)>>
    /\ time_in_phase[lastCall.node] >= MIN_PHASE_DURATION

\* C16: every observation get_state returns for an intersection, assembled
\* from its lanes and neighbours or degenerate, has the length of the
\* degenerate all-zero vector.
C16_ObservationLength ==
    (probe.stage = "done" /\ probe.kind = "obs") => Len(probe.obs) = ZERO_STATE_SIZE

\* C17: when the lane query of an intersection raises or answers an empty
\* list, calculate_reward returns exactly 0, whatever the arrivals of the tick
\* and the intersection's timer are.
C17_NoLanesRewardZero ==
    (/\ probe.stage = "done" /\ probe.kind = "reward"
     /\ (Fails(probe.t, "getControlledLanes", 0) \/ probe.t.lanes = <<>>))
    => probe.reward = 0

\* the reward term a simulator call belongs to
TermOf(name) ==
    CASE name \in {"getLastStepVehicleIDs", "getTypeID", "getWaitingTime"} -> "waiting"
      [] name = "getArrivedNumber" -> "throughput"
      [] name = "getLastStepMeanSpeed" -> "speed"
      [] name = "getLastStepHaltingNumber" -> "queue"
      [] OTHER -> "pressure"

\* C18: when exactly one simulator call behind a reward term raises (the lane
\* list being resolved and not empty), the reward returned is the sum of the
\* values the other terms have without the failure: the term of the failed
\* call contributes 0 and every other term its normal value.
C18_FailSoftTermByTerm ==
    (/\ probe.stage = "done" /\ probe.kind = "reward"
     /\ Cardinality(probe.t.failed) = 1
     /\ ~Fails(probe.t, "getControlledLanes", 0)
     /\ probe.t.lanes # <<>>)
    => LET normal == RewardTerms(probe.timer, [probe.t EXCEPT !.failed = {}])
           q == CHOOSE x \in probe.t.failed : TRUE
       IN probe.reward = SumTerms(normal) - normal[TermOf(q.q)]

C20_EpisodeTerminates ==
    /\ [](current_step <= EPISODE_DURATION /\ simTime <= EPISODE_DURATION)
    /\ []((lastCall.op = "finish" /\ out.kind = "step" /\ current_step >= EPISODE_DURATION)
            => out.done)
    /\ []<>(pc = "ended")

\* an episode ran out of its time budget: the last step returned terminal with
\* the counter at EPISODE_DURATION, not because of congestion
C20_Witness ==
    /\ lastCall.op = "finish"
    /\ out.kind = "step" /\ out.done /\ ~out.congested
    /\ current_step = EPISODE_DURATION
    /\ pc = "ended"

\* C25: while the simulator reports an odd (yellow) phase for an intersection,
\* a keep or switch action for it issues no set-phase or set-duration command
\* and leaves the pending transitions as they are; every set-phase command of
\* apply_action and of the pending-change loop is issued for an intersection
\* whose reported phase is even.
C25_NoCommandInYellow ==
    [][/\ (IsApply("keep") \/ IsApply("switch")) /\ lastCall'.r.phase % 2 = 1
          => /\ cmds' = <<>>
             /\ pending_phase_changes' = pending_phase_changes
             /\ simPhase' = simPhase
       /\ pc = "apply" /\ lastCall'.op = "apply_action"
          => \A i \in 1..Len(cmds') :
                cmds'[i].cmd = "setPhase"
                => lastCall'.r.phase # Fail /\ lastCall'.r.phase % 2 = 0
       /\ pc = "resolve" /\ lastCall'.op = "resolve"
          => \A i \in 1..Len(cmds') :
                cmds'[i].cmd = "setPhase"
                => /\ lastCall'.r[cmds'[i].node].phase # Fail
                   /\ lastCall'.r[cmds'[i].node].phase % 2 = 0]_vars
\* a switch whose minimum duration was met came while the light was yellow
C25_Witness ==
    /\ lastCall.op = "apply_action"
    /\ lastCall.action.type = "switch"
    /\ lastCall.r.phase # Fail /\ lastCall.r.phase % 2 = 1
    /\ time_in_phase[lastCall.node] >= MIN_PHASE_DURATION
    /\ cmds = <<>>

\* C26: a switch that targets the green phase the simulator reports
\* (2 * phase_idx = reported phase) with the minimum duration met, and whose
\* setPhaseDuration call is accepted, issues exactly one command, the
\* set-duration command with the requested duration: no set-phase command, the
\* simulator's phase and the pending transitions unchanged, the timer back at 0.
C26_SameGreenUpdatesDuration ==
    [][/\ IsApply("switch")
       /\ lastCall'.action.phase_idx * 2 = lastCall'.r.phase
       /\ time_in_phase[lastCall'.node] >= MIN_PHASE_DURATION
       /\ lastCall'.r.setDurOk
       => /\ cmds' = <<SetDurationCmd(lastCall'.node, lastCall'.action.duration)>>
          /\ simPhase' = simPhase
          /\ pending_phase_changes' = pending_phase_changes
          /\ time_in_phase'[lastCall'.node] = 0]_vars
\* the reported green phase was requested again after the minimum duration
C26_Witness ==
    /\ lastCall.op = "apply_action"
    /\ lastCall.action.type = "switch"
    /\ lastCall.action.phase_idx * 2 = lastCall.r.phase
    /\ lastCall.action.phase_idx > 0
    /\ cmds = <<SetDurationCmd(lastCall.node, lastCall.action.duration)>>
    /\ time_in_phase[lastCall.node] = 0

\* C27: a keep action applied while the simulator reports a green (even) phase
\* advances the timer by one and puts it back to 0 when the advanced timer has
\* reached MAX_PHASE_DURATION; it issues no command and leaves the tracked
\* phase, the simulator's phase and the pending transitions unchanged.
C27_KeepInGreen ==
    [][IsApply("keep") /\ lastCall'.r.phase % 2 = 0
       => LET n == lastCall'.node
              t1 == time_in_phase[n] + 1
          IN /\ time_in_phase'[n] = IF t1 >= MAX_PHASE_DURATION THEN 0 ELSE t1
             /\ cmds' = <<>>
             /\ simPhase' = simPhase
             /\ current_phases' = current_phases
             /\ pending_phase_changes' = pending_phase_changes]_vars
\* a keep in green found the timer one short of the maximum and restarted it
C27_Witness ==
    /\ lastCall.op = "apply_action"
    /\ lastCall.action.type = "keep"
    /\ lastCall.r.phase # Fail /\ lastCall.r.phase % 2 = 0
    /\ time_in_phase[lastCall.node] = 0
    /\ cmds = <<>>

\* C28: a switch honoured (yellow commanded, green scheduled) for an
\* intersection that already has a pending transition replaces that record:
\* afterwards the intersection has exactly one record, holding the new target
\* and duration, and the records of the other intersections are as before; and
\* whenever the pending-change loop commands a green phase it is the target of
\* the record held at that moment, so a replaced target is never applied.
C28_PendingLastWriterWins ==
    [][/\ IsApply("switch") /\ HasKey(pending_phase_changes, lastCall'.node)
          /\ (\E j \in 1..Len(cmds') : cmds'[j].cmd = "setPhase")
          /\ lastCall'.r.setDurOk
          => LET n == lastCall'.node
                 a == lastCall'.action
             IN /\ Cardinality({k \in 1..Len(pending_phase_changes') :
                                    pending_phase_changes'[k].node = n}) = 1
                /\ DictGet(pending_phase_changes', n) =
                       [node |-> n, phase |-> 2 * a.phase_idx, duration |-> a.duration]
                /\ DictDel(pending_phase_changes', n) = DictDel(pending_phase_changes, n)
       /\ pc = "resolve" /\ lastCall'.op = "resolve"
          => \A i \in 1..Len(cmds') :
                cmds'[i].cmd = "setPhase"
                => /\ HasKey(pending_phase_changes, cmds'[i].node)
                   /\ cmds'[i].arg = DictGet(pending_phase_changes, cmds'[i].node).phase]_vars
\* a switch was honoured while a record with another target was pending
C28_Witness ==
    /\ lastCall.op = "apply_action"
    /\ lastCall.action.type = "switch"
    /\ lastCall.replaced # NoRecord
    /\ lastCall.replaced.phase # 2 * lastCall.action.phase_idx
    /\ HasKey(pending_phase_changes, lastCall.node)
    /\ DictGet(pending_phase_changes, lastCall.node).phase = 2 * lastCall.action.phase_idx
    /\ Len(cmds) = 2

\* C29: the action PPOAgent.select_action decodes from a valid index i: index 0
\* is the keep action when keep is enabled; every other index is a switch whose
\* phase lies in [0, NUM_PHASES) and whose duration is MIN + 2 * k, within
\* [MIN, MAX], with the clamp to MAX leaving the value as it was computed; and
\* no other valid index decodes to the same action.
C29_DecodeInjective ==
    codec.stage = "store" /\ codec.agent = "PPO"
    => LET i == codec.action_idx
           mn == codec.minD
           mx == codec.maxD
           a == codec.action
           sw == IF codec.keep THEN i - 1 ELSE i
       IN /\ (codec.keep /\ i = 0) => a = KeepAction
          /\ ~(codec.keep /\ i = 0)
             => /\ a.type = "switch"
                /\ a.phase_idx \in 0..(NUM_PHASES - 1)
                /\ a.duration = mn + 2 * (sw \div NUM_PHASES)
                /\ a.duration \in mn..mx
          /\ \A j \in 0..(action_size(mn, mx, codec.keep) - 1) :
                j # i => PPO_select_action(j, mn, mx, codec.keep) # a
\* the last index of an action space with keep and several durations was decoded
C29_Witness ==
    /\ codec.stage = "store" /\ codec.agent = "PPO"
    /\ codec.keep
    /\ codec.action_idx = action_size(codec.minD, codec.maxD, TRUE) - 1
    /\ codec.action.type = "switch"
    /\ codec.action.phase_idx = NUM_PHASES - 1
    /\ codec.action.duration > codec.minD

\* C30: every action index that is stored (by PPOAgent / A3CAgent
\* store_transition, or by the coordinator's encoding for a DQN agent) lies in
\* [0, action_size), for every action a policy can return, the exploratory
\* random actions of the DQN agent included.
C30_StoredIndexInRange ==
    codec.stage = "stored"
    => codec.stored \in 0..(action_size(codec.minD, codec.maxD, codec.keep) - 1)

C23_RunningTotals ==
    [][pc = "finish" /\ lastCall'.op = "finish" /\ out'.kind = "step"
       => /\ metrics'.total_throughput \in
                {metrics.total_throughput, metrics.total_throughput + lastCall'.arrived}
          /\ metrics'.total_waiting_time \in
                {metrics.total_waiting_time, metrics.total_waiting_time + lastCall'.waiting}]_vars

\* C24: the metrics the Trainer recorded for a finished episode keep the values
\* they had when the episode ended: no reset() and no step() of a later episode
\* (no step of the program at all) changes what an entry of
\* Trainer.episode_metrics holds.
C24_RecordedMetricsKept ==
    [][\A i \in 1..Len(run.episode_metrics) :
          Deref(run.episode_metrics[i])' = Deref(run.episode_metrics[i])]_vars


\* C33: consecutive honored switches of one intersection are at least
\* MIN_PHASE_DURATION step() calls apart: when apply_action carries a switch out
\* (yellow commanded and scheduled, or the duration updated, the simulator
\* accepting the commands), the last switch it carried out for that
\* intersection in the same episode lies at least MIN_PHASE_DURATION step()
\* calls back, whatever actions were requested in between.
C33_SwitchesApart ==
    [][IsApply("switch") /\ SwitchCompleted(cmds')
       => sinceSwitch[lastCall'.node] >= MIN_PHASE_DURATION - 1]_vars
\* in the step() call that follows an honored switch, a switch is requested
\* while the simulator reports a green phase and accepts every call: refused
C33_Witness ==
    /\ lastCall.op = "apply_action"
    /\ lastCall.action.type = "switch"
    /\ lastCall.r.phase # Fail /\ lastCall.r.phase % 2 = 0
    /\ lastCall.r.setPhaseOk /\ lastCall.r.setDurOk
    /\ sinceSwitch[lastCall.node] = 1
    /\ cmds = <<>>


\* C34: whenever a call of apply_action has made the simulator accept a
\* set-phase command to a yellow (odd) phase for an intersection, a pending
\* transition for that intersection is recorded when the call returns, also
\* when the set-duration command that follows is refused.
C34_YellowHasPending ==
    [][/\ pc = "apply"
       /\ lastCall'.op = "apply_action"
       /\ (\E j \in 1..Len(cmds') : /\ cmds'[j].cmd = "setPhase"
                                    /\ cmds'[j].node = lastCall'.node
                                    /\ cmds'[j].arg % 2 = 1)
       => HasKey(pending_phase_changes', lastCall'.node)]_vars


\* C35: the pending loop of a step() treats the intersections independently:
\* every intersection with a pending record whose reported phase is even and
\* whose own set-phase and set-duration commands are accepted has its record
\* applied and deleted, whatever the simulator answers for the other
\* intersections; and a record is deleted only when both its commands were
\* accepted.
C35_ResolveIndependent ==
    [][pc = "resolve" /\ lastCall'.op = "resolve" =>
        \A n \in Nodes : HasKey(pending_phase_changes, n) =>
            LET rec == DictGet(pending_phase_changes, n)
                both == <<SetPhaseCmd(n, rec.phase), SetDurationCmd(n, rec.duration)>>
            IN
            /\ (/\ lastCall'.r[n].phase # Fail
                /\ lastCall'.r[n].phase % 2 = 0
                /\ lastCall'.r[n].setPhaseOk
                /\ lastCall'.r[n].setDurOk)
               => (CmdsFor(cmds', n) = both /\ ~HasKey(pending_phase_changes', n))
            /\ ~HasKey(pending_phase_changes', n) => CmdsFor(cmds', n) = both]_vars


\* C39: for the PPO and the A3C policy the index whose probability is recorded
\* as the log-probability of a selected action is the index that was sampled,
\* and it is the index store_transition encodes for that action, whatever
\* index is sampled and whether or not ALLOW_PHASE_KEEP is set.
C39_LogProbIndex ==
    (codec.stage \in {"store", "stored"} /\ codec.agent \in {"PPO", "A3C"})
    => /\ codec.log_prob_idx = codec.action_idx
       /\ codec.stage = "stored" => codec.stored = codec.log_prob_idx


\* C31 (as stated): actuated_action never returns a switch action (1-4) for a
\* traffic light when less than 10 seconds have passed since that light's last
\* switch.
C31_MinGreen ==
    (lastCall.op = "step" /\ lastCall.tick # "none" /\ lastCall.action \in 1..4)
    => lastCall.since >= ACTUATED_MIN_GREEN

\* C31 (amended): actuated_action never returns a switch action when less than
\* 5 seconds have passed since the light's last switch, and when less than 10
\* seconds have passed it returns one only if the observation reports an
\* emergency vehicle.
C31_MinGreenUnlessEmergency ==
    (lastCall.op = "step" /\ lastCall.tick # "none" /\ lastCall.action \in 1..4)
    => /\ lastCall.since >= EMERGENCY_MIN_GREEN
       /\ lastCall.since < ACTUATED_MIN_GREEN => lastCall.emergency
\* the controller switched for an emergency vehicle between 5 and 10 seconds
\* after the last switch
C31_Witness ==
    /\ lastCall.op = "step" /\ lastCall.tick = "ok"
    /\ lastCall.action \in 1..4
    /\ lastCall.since \in EMERGENCY_MIN_GREEN..(ACTUATED_MIN_GREEN - 1)
    /\ lastCall.emergency
    /\ \E j \in 1..Len(cmds) : cmds[j].cmd = "setPhase"

\* C32: a 'step' command is rejected when the simulation is not running or is
\* paused: the simulator is not ticked and sim_state is unchanged. Otherwise
\* (the connection loaded, the tick succeeding) the controller, if there is
\* one, acts first, the simulator is then ticked exactly once and current_step
\* grows by exactly 1.
C32_StepAdvancesOnce ==
    [][lastCall'.op = "step" =>
        IF ~sim_state.is_running \/ sim_state.is_paused
        THEN /\ out'.status = 400
             /\ cmds' = <<>>
             /\ simTime' = simTime
             /\ sim_state' = sim_state
        ELSE (loaded /\ lastCall'.tick = "ok") =>
             /\ cmds' # <<>>
             /\ cmds'[Len(cmds')] = TickCmd
             /\ \A j \in 1..(Len(cmds') - 1) : cmds'[j] # TickCmd
             /\ sim_state.rl_controller # NoController =>
                    (Len(cmds') >= 2 /\ cmds'[1].cmd = "rl_controller.step")
             /\ simTime' = simTime + 1
             /\ sim_state'.current_step = sim_state.current_step + 1]_vars
\* a step went through on a running simulation with a controller, which
\* commanded a phase before the tick
C32_Witness ==
    /\ lastCall.op = "step" /\ lastCall.tick = "ok"
    /\ Len(cmds) = 3
    /\ cmds[1].cmd = "rl_controller.step" /\ cmds[2].cmd = "setPhase" /\ cmds[3] = TickCmd
    /\ sim_state.current_step > 1

\* C36: in every state the control lifecycle reaches (any sequence of start,
\* pause, resume, stop and step commands, failed starts, completion and
\* connection loss included), is_paused implies is_running.
C36_PausedImpliesRunning == sim_state.is_paused => sim_state.is_running
\* a simulation that was stepped is paused
C36_Witness ==
    /\ sim_state.is_paused /\ sim_state.is_running
    /\ sim_state.current_step > 0
    /\ lastCall.op = "pause"

\* C37: whenever a command has left is_running false, its simulator calls
\* succeeding (a stop, a step that found the simulation completed, a step that
\* found the connection lost), no simulator connection is left open, so that
\* a 'start' command can start a new simulation.
C37_NotRunningNotConnected ==
    (/\ ~sim_state.is_running
     /\ \/ lastCall.op = "stop" /\ lastCall.ok
        \/ lastCall.op = "step" /\ out.body \in {"completed", "connection_lost"})
    => ~loaded


\* C38: under every interleaving of broadcast_state and a client's
\* websocket_endpoint handler the client is removed from the client list at
\* most once: the handler never calls remove for a socket that is no longer
\* in the list (a call that list.remove answers with ValueError).
C38_RemovedOnce == \A c \in Clients : tasks.handler[c] # "ValueError"

====
